---- MODULE Spec2Model ----
(***************************************************************************)
(* A model of fs-verify-engine: the check engine (engine/engine.py and     *)
(* engine/checks), the field resolver and sign normaliser                  *)
(* (engine/field_mapper.py) and the parsers (engine/parsers.py,            *)
(* engine/stacked_parser.py).                                              *)
(*                                                                         *)
(* Conventions.  Monetary values are integers.  tolerance_abs is held in   *)
(* hundredths (0.01 is 1) and tolerance_pct in thousandths (0.001 is 1);   *)
(* every comparison of the code is made in exact arithmetic after scaling  *)
(* both sides.  An Optional[float] is a tuple: <<>> is None, <<n>> is the  *)
(* number n and <<n, d>> the quotient n/d (<<1, 0>> is float('inf')).      *)
(* A period label is a number whose order is the order of the labels as    *)
(* strings.  A Python dict is a sequence of <<key, value>> pairs in        *)
(* insertion order.  Text is a tuple of one-character strings.             *)
(***************************************************************************)
EXTENDS Integers, Sequences, FiniteSets, TLC

VARIABLES
    \* ---- check engine
    model,            \* the FinancialModel handed to run
    tolerance_abs,    \* VerificationEngine.tolerance_abs (hundredths)
    tolerance_pct,    \* VerificationEngine.tolerance_pct (thousandths)
    disabled,         \* VerificationEngine.disabled_check_ids
    enabled_categories, \* VerificationEngine.enabled_categories (<<>> is None)
    registry,         \* CheckRegistry.get_all(): check ids in registration order
    pc,               \* "constructed" | "running" | "done"
    idx,              \* number of checks the loop of run has finished
    all_results,      \* run's local all_results
    check_metadata,   \* run's local check_metadata
    report,           \* the VerificationReport returned by run (<<>> before)
    prev,             \* the engine and report of the run before this one (<<>> if none)
    \* ---- field mapper and parsers
    mapping_config,   \* the MappingConfig load_mapping_config returned
    call,             \* the call in progress: its name and arguments ("none" if idle)
    ret               \* what the call returned (<<>> if idle)

engineVars == <<model, tolerance_abs, tolerance_pct, disabled, enabled_categories,
                registry, pc, idx,
                all_results, check_metadata, report, prev>>

mapperVars == <<mapping_config, call, ret>>

vars == <<engineVars, mapperVars>>

(***************************************************************************)
(* Python helpers                                                          *)
(***************************************************************************)
None == <<>>

Num(n) == <<n>>

Abs(n) == IF n < 0 THEN -n ELSE n

Max(a, b) == IF a >= b THEN a ELSE b

RECURSIVE FlatMap(_, _)
FlatMap(F(_), s) == IF s = <<>> THEN <<>> ELSE F(Head(s)) \o FlatMap(F, Tail(s))

RECURSIVE SortedSeq(_)
SortedSeq(S) ==
    IF S = {} THEN <<>>
    ELSE LET lo == CHOOSE x \in S : \A y \in S : x <= y
         IN <<lo>> \o SortedSeq(S \ {lo})

Indices(s) == [i \in 1..Len(s) |-> i]

\* dict: a sequence of <<key, value>> pairs, keys distinct
DictKeys(d) == {d[i][1] : i \in 1..Len(d)}

HasKey(d, k) == k \in DictKeys(d)

\* d.get(k), were it to hand out the value inserted first
DictGetFirst(d, k) == d[1][2]

DictGet(d, k) == d[CHOOSE i \in 1..Len(d) : d[i][1] = k][2]

\* d[k] = v on a dict: a new key goes last, a present key keeps its place
DictSet(d, k, v) ==
    IF HasKey(d, k)
    THEN [i \in 1..Len(d) |-> IF d[i][1] = k THEN <<k, v>> ELSE d[i]]
    ELSE Append(d, <<k, v>>)

(***************************************************************************)
(* models.py: the statements and the model                                 *)
(***************************************************************************)
IncomeStatement ==
    [revenue |-> 0, cogs |-> 0, gross_profit |-> 0, sga |-> 0, rd |-> 0,
     other_opex |-> 0, depreciation |-> 0, amortization |-> 0, total_opex |-> 0,
     ebit |-> 0, interest_expense |-> 0, interest_income |-> 0,
     other_income_expense |-> 0, ebt |-> 0, tax_expense |-> 0, net_income |-> 0,
     ebitda |-> None, effective_tax_rate |-> None,
     shares_outstanding_basic |-> None, shares_outstanding_diluted |-> None,
     eps_basic |-> None, eps_diluted |-> None]

BalanceSheet ==
    [cash |-> 0, short_term_investments |-> 0, accounts_receivable |-> 0,
     inventory |-> 0, prepaid_expenses |-> 0, other_current_assets |-> 0,
     total_current_assets |-> 0,
     ppe_gross |-> 0, accumulated_depreciation |-> 0, ppe_net |-> 0,
     goodwill |-> 0, intangible_assets |-> 0, other_non_current_assets |-> 0,
     total_non_current_assets |-> 0, total_assets |-> 0,
     accounts_payable |-> 0, accrued_liabilities |-> 0, short_term_debt |-> 0,
     current_portion_ltd |-> 0, other_current_liabilities |-> 0,
     total_current_liabilities |-> 0,
     long_term_debt |-> 0, deferred_tax_liability |-> 0,
     other_non_current_liabilities |-> 0, total_non_current_liabilities |-> 0,
     total_liabilities |-> 0,
     common_stock |-> 0, additional_paid_in_capital |-> 0, retained_earnings |-> 0,
     treasury_stock |-> 0, accumulated_other_comprehensive_income |-> 0,
     total_equity |-> 0, total_liabilities_and_equity |-> 0]

CashFlowStatement ==
    [net_income |-> 0, depreciation_amortization |-> 0,
     stock_based_compensation |-> 0, deferred_taxes |-> 0,
     change_in_receivables |-> 0, change_in_inventory |-> 0,
     change_in_payables |-> 0, change_in_other_working_capital |-> 0,
     other_operating |-> 0, cash_from_operations |-> 0,
     capex |-> 0, acquisitions |-> 0, purchase_of_investments |-> 0,
     sale_of_investments |-> 0, other_investing |-> 0, cash_from_investing |-> 0,
     debt_issuance |-> 0, debt_repayment |-> 0, equity_issuance |-> 0,
     share_repurchases |-> 0, dividends_paid |-> 0, other_financing |-> 0,
     cash_from_financing |-> 0,
     net_change_in_cash |-> 0, beginning_cash |-> 0, ending_cash |-> 0,
     free_cash_flow |-> None]

FinancialModel ==
    [periods |-> <<>>, historical_periods |-> <<>>, projected_periods |-> <<>>,
     income_statements |-> <<>>, balance_sheets |-> <<>>, cash_flows |-> <<>>]

get_ordered_periods(m) ==
    IF m.periods # <<>> THEN m.periods
    ELSE SortedSeq(DictKeys(m.income_statements) \cup DictKeys(m.balance_sheets)
                     \cup DictKeys(m.cash_flows))

(***************************************************************************)
(* checks/base.py: BaseCheck                                               *)
(***************************************************************************)
ValueErrorMsg == "tolerances must be non-negative"

TypeErrorMsg == "BaseCheck._make_result() got an unexpected keyword argument 'msg'"

\* the parameters _make_result accepts by keyword
MakeResultParams ==
    {"period", "passed", "message", "expected", "actual", "severity_on_fail", "details"}

\* math.isclose raises ValueError on a negative tolerance, before comparing
IsCloseRaises(abs_tol, rel_tol) == abs_tol < 0 \/ rel_tol < 0

\* math.isclose(a, b, abs_tol, rel_tol): abs_tol in hundredths, rel_tol in thousandths
IsCloseValue(a, b, abs_tol, rel_tol) ==
    \/ a = b
    \/ 1000 * Abs(b - a) <= Abs(rel_tol * b)
    \/ 1000 * Abs(b - a) <= Abs(rel_tol * a)
    \/ 100 * Abs(b - a) <= abs_tol

\* BaseCheck._is_close: abs_tol is None or the caller's own tolerance
is_close(a, b, abs_tol, ta, tp) ==
    LET tol == IF abs_tol # None THEN abs_tol[1] ELSE ta
    IN  IsCloseValue(a, b, tol, tp)

is_close_raises(abs_tol, ta, tp) ==
    LET tol == IF abs_tol # None THEN abs_tol[1] ELSE ta
    IN  IsCloseRaises(tol, tp)

\* the delta taken the wrong way round
delta_reversed(expected, actual) == expected - actual

delta(expected, actual) == actual - expected

delta_pct(expected, actual) ==
    IF expected = 0 THEN (IF actual = 0 THEN None ELSE <<1, 0>>)
    ELSE <<actual - expected, Abs(expected)>>

\* One pass of a check's loop body that reaches _make_result: the arguments of
\* the call, the keyword the call site passes the message under, and the error
\* the _is_close before it raised ("" if none).
Step(period, passed, expected, actual, sev, kw, raises) ==
    [period |-> period, passed |-> passed, expected |-> expected, actual |-> actual,
     severity_on_fail |-> sev, kw |-> kw, raises |-> raises]

\* passed = self._is_close(e, a[, abs_tol]); then _make_result(expected=e, actual=a)
CloseStep(period, e, a, abs_tol, sev, kw, ta, tp) ==
    Step(period,
         IF is_close_raises(abs_tol, ta, tp) THEN FALSE ELSE is_close(e, a, abs_tol, ta, tp),
         Num(e), Num(a), sev, kw,
         IF is_close_raises(abs_tol, ta, tp) THEN ValueErrorMsg ELSE "")

\* BaseCheck._make_result
make_result(check_id, category, st, ta) ==
    LET both == st.expected # None /\ st.actual # None
    IN  [check_id |-> check_id, category |-> category,
         severity |-> IF st.passed THEN "pass" ELSE st.severity_on_fail,
         period |-> st.period,
         expected_value |-> st.expected, actual_value |-> st.actual,
         delta |-> IF both THEN Num(delta(st.expected[1], st.actual[1])) ELSE None,
         delta_pct |-> IF both THEN delta_pct(st.expected[1], st.actual[1]) ELSE None,
         tolerance |-> Num(ta)]

(***************************************************************************)
(* checks/structural.py                                                    *)
(***************************************************************************)
\* for period in model.get_ordered_periods(): s = stmts.get(period);
\* if not s: continue; <body>
ForEachPeriod(m, stmts, Body(_, _)) ==
    LET one(p) == IF HasKey(stmts, p) THEN Body(p, DictGet(stmts, p)) ELSE <<>>
    IN  FlatMap(one, get_ordered_periods(m))

BalanceSheetBalances(m, ta, tp) ==
    LET body(p, bs) ==
            <<CloseStep(p, bs.total_assets, bs.total_liabilities_and_equity, None,
                        "critical", "message", ta, tp)>>
    IN  ForEachPeriod(m, m.balance_sheets, body)

BalanceSheetTotalAssets(m, ta, tp) ==
    LET body(p, bs) ==
            <<CloseStep(p, bs.total_current_assets + bs.total_non_current_assets,
                        bs.total_assets, None, "error", "message", ta, tp)>>
    IN  ForEachPeriod(m, m.balance_sheets, body)

BalanceSheetTotalLiabilities(m, ta, tp) ==
    LET body(p, bs) ==
            <<CloseStep(p, bs.total_current_liabilities + bs.total_non_current_liabilities,
                        bs.total_liabilities, None, "error", "message", ta, tp)>>
    IN  ForEachPeriod(m, m.balance_sheets, body)

BalanceSheetLESum(m, ta, tp) ==
    LET body(p, bs) ==
            <<CloseStep(p, bs.total_liabilities + bs.total_equity,
                        bs.total_liabilities_and_equity, None, "error", "message", ta, tp)>>
    IN  ForEachPeriod(m, m.balance_sheets, body)

IncomeStatementGrossProfit(m, ta, tp) ==
    LET body(p, ist) ==
            <<CloseStep(p, ist.revenue - ist.cogs, ist.gross_profit, None,
                        "error", "message", ta, tp)>>
    IN  ForEachPeriod(m, m.income_statements, body)

IncomeStatementEBIT(m, ta, tp) ==
    LET body(p, ist) ==
            LET opex == ist.sga + ist.rd + ist.depreciation + ist.amortization
                          + ist.other_opex
                computed == IF ist.total_opex # 0 THEN ist.gross_profit - ist.total_opex
                            ELSE ist.gross_profit - opex
            IN  <<CloseStep(p, computed, ist.ebit, None, "error", "message", ta, tp)>>
    IN  ForEachPeriod(m, m.income_statements, body)

IncomeStatementEBT(m, ta, tp) ==
    LET body(p, ist) ==
            <<CloseStep(p, ist.ebit - ist.interest_expense + ist.interest_income
                             + ist.other_income_expense,
                        ist.ebt, None, "error", "message", ta, tp)>>
    IN  ForEachPeriod(m, m.income_statements, body)

IncomeStatementNetIncome(m, ta, tp) ==
    LET body(p, ist) ==
            <<CloseStep(p, ist.ebt - ist.tax_expense, ist.net_income, None,
                        "error", "message", ta, tp)>>
    IN  ForEachPeriod(m, m.income_statements, body)

CashFlowReconciliation(m, ta, tp) ==
    LET body(p, cf) ==
            <<CloseStep(p, cf.beginning_cash + cf.net_change_in_cash, cf.ending_cash,
                        None, "critical", "message", ta, tp)>>
    IN  ForEachPeriod(m, m.cash_flows, body)

CashFlowNetChangeCalc(m, ta, tp) ==
    LET body(p, cf) ==
            <<CloseStep(p, cf.cash_from_operations + cf.cash_from_investing
                             + cf.cash_from_financing,
                        cf.net_change_in_cash, None, "critical", "message", ta, tp)>>
    IN  ForEachPeriod(m, m.cash_flows, body)

CashFlowFromOperationsCalc(m, ta, tp) ==
    LET body(p, cf) ==
            <<CloseStep(p, cf.net_income + cf.depreciation_amortization
                             + cf.stock_based_compensation + cf.deferred_taxes
                             + cf.change_in_receivables + cf.change_in_inventory
                             + cf.change_in_payables + cf.change_in_other_working_capital
                             + cf.other_operating,
                        cf.cash_from_operations, None, "error", "message", ta, tp)>>
    IN  ForEachPeriod(m, m.cash_flows, body)

PPENetCalc(m, ta, tp) ==
    LET body(p, bs) ==
            IF bs.ppe_gross = 0 /\ bs.accumulated_depreciation = 0 /\ bs.ppe_net = 0
            THEN <<>>
            ELSE <<CloseStep(p, bs.ppe_gross - bs.accumulated_depreciation, bs.ppe_net,
                             None, "error", "message", ta, tp)>>
    IN  ForEachPeriod(m, m.balance_sheets, body)

CurrentAssetsBreakdown(m, ta, tp) ==
    LET body(p, bs) ==
            <<CloseStep(p, bs.cash + bs.short_term_investments + bs.accounts_receivable
                             + bs.inventory + bs.prepaid_expenses + bs.other_current_assets,
                        bs.total_current_assets, None, "error", "message", ta, tp)>>
    IN  ForEachPeriod(m, m.balance_sheets, body)

CurrentLiabilitiesBreakdown(m, ta, tp) ==
    LET body(p, bs) ==
            <<CloseStep(p, bs.accounts_payable + bs.accrued_liabilities + bs.short_term_debt
                             + bs.current_portion_ltd + bs.other_current_liabilities,
                        bs.total_current_liabilities, None, "error", "message", ta, tp)>>
    IN  ForEachPeriod(m, m.balance_sheets, body)

EquityBreakdown(m, ta, tp) ==
    LET body(p, bs) ==
            <<CloseStep(p, bs.common_stock + bs.additional_paid_in_capital
                             + bs.retained_earnings + bs.treasury_stock
                             + bs.accumulated_other_comprehensive_income,
                        bs.total_equity, None, "error", "message", ta, tp)>>
    IN  ForEachPeriod(m, m.balance_sheets, body)

STRUCTURAL_CHECKS ==
    <<"STR-001", "STR-002", "STR-003", "STR-004", "STR-010", "STR-011", "STR-012",
      "STR-013", "STR-020", "STR-021", "STR-022", "STR-030", "STR-031", "STR-032",
      "STR-033">>

(***************************************************************************)
(* checks/cross_statement.py                                               *)
(***************************************************************************)
\* periods = model.get_ordered_periods(); for i in range(1, len(periods)):
\* prev_period = periods[i - 1]; curr_period = periods[i]; <body>
ForEachPair(m, Body(_, _)) ==
    LET ps == get_ordered_periods(m)
        one(i) == IF i = 1 THEN <<>> ELSE Body(ps[i - 1], ps[i])
    IN  FlatMap(one, Indices(ps))

total_debt(bs) == bs.short_term_debt + bs.current_portion_ltd + bs.long_term_debt

NetIncomeLinkage(m, ta, tp) ==
    LET body(p, ist) ==
            IF ~HasKey(m.cash_flows, p) THEN <<>>
            ELSE <<CloseStep(p, ist.net_income, DictGet(m.cash_flows, p).net_income,
                             None, "critical", "message", ta, tp)>>
    IN  ForEachPeriod(m, m.income_statements, body)

RetainedEarningsRollforward(m, ta, tp) ==
    LET body(prv, cur) ==
            IF ~(HasKey(m.balance_sheets, prv) /\ HasKey(m.balance_sheets, cur)
                   /\ HasKey(m.income_statements, cur))
            THEN <<>>
            ELSE LET bs_prev == DictGet(m.balance_sheets, prv)
                     bs_curr == DictGet(m.balance_sheets, cur)
                     ist == DictGet(m.income_statements, cur)
                     dividends == IF HasKey(m.cash_flows, cur)
                                  THEN DictGet(m.cash_flows, cur).dividends_paid ELSE 0
                     computed == bs_prev.retained_earnings + ist.net_income + dividends
                     actual == bs_curr.retained_earnings
                 IN  <<CloseStep(cur, computed, actual, Num(Max(ta, 2 * Abs(actual))),
                                 "error", "msg", ta, tp)>>
    IN  ForEachPair(m, body)

CashEndingToBS(m, ta, tp) ==
    LET body(p, cf) ==
            IF ~HasKey(m.balance_sheets, p) THEN <<>>
            ELSE <<CloseStep(p, cf.ending_cash, DictGet(m.balance_sheets, p).cash,
                             None, "critical", "message", ta, tp)>>
    IN  ForEachPeriod(m, m.cash_flows, body)

CashBeginningContinuity(m, ta, tp) ==
    LET body(prv, cur) ==
            IF ~(HasKey(m.cash_flows, prv) /\ HasKey(m.cash_flows, cur)) THEN <<>>
            ELSE <<CloseStep(cur, DictGet(m.cash_flows, prv).ending_cash,
                             DictGet(m.cash_flows, cur).beginning_cash,
                             None, "critical", "msg", ta, tp)>>
    IN  ForEachPair(m, body)

DALinkage(m, ta, tp) ==
    LET body(p, ist) ==
            IF ~HasKey(m.cash_flows, p) THEN <<>>
            ELSE LET is_da == ist.depreciation + ist.amortization
                     cf_da == DictGet(m.cash_flows, p).depreciation_amortization
                 IN  IF is_da = 0 /\ cf_da = 0 THEN <<>>
                     ELSE <<CloseStep(p, is_da, cf_da, None, "warning", "message", ta, tp)>>
    IN  ForEachPeriod(m, m.income_statements, body)

PPERollforward(m, ta, tp) ==
    LET body(prv, cur) ==
            IF ~(HasKey(m.balance_sheets, prv) /\ HasKey(m.balance_sheets, cur)
                   /\ HasKey(m.cash_flows, cur))
            THEN <<>>
            ELSE LET bs_prev == DictGet(m.balance_sheets, prv)
                     bs_curr == DictGet(m.balance_sheets, cur)
                     cf == DictGet(m.cash_flows, cur)
                     depreciation == IF HasKey(m.income_statements, cur)
                                     THEN DictGet(m.income_statements, cur).depreciation
                                     ELSE cf.depreciation_amortization
                     computed == bs_prev.ppe_net + (-cf.capex) - depreciation
                     actual == bs_curr.ppe_net
                 IN  IF bs_prev.ppe_net = 0 /\ actual = 0 THEN <<>>
                     ELSE <<CloseStep(cur, computed, actual, Num(Max(ta, 5 * Abs(actual))),
                                      "warning", "msg", ta, tp)>>
    IN  ForEachPair(m, body)

DebtRollforward(m, ta, tp) ==
    LET body(prv, cur) ==
            IF ~(HasKey(m.balance_sheets, prv) /\ HasKey(m.balance_sheets, cur)
                   /\ HasKey(m.cash_flows, cur))
            THEN <<>>
            ELSE LET debt_prev == total_debt(DictGet(m.balance_sheets, prv))
                     debt_curr == total_debt(DictGet(m.balance_sheets, cur))
                     cf == DictGet(m.cash_flows, cur)
                     computed == debt_prev + cf.debt_issuance + cf.debt_repayment
                 IN  IF debt_prev = 0 /\ debt_curr = 0 THEN <<>>
                     ELSE <<CloseStep(cur, computed, debt_curr,
                                      Num(Max(ta, 3 * Abs(debt_curr))),
                                      "warning", "msg", ta, tp)>>
    IN  ForEachPair(m, body)

InterestExpenseReasonability(m, ta, tp) ==
    LET body(prv, cur) ==
            IF ~(HasKey(m.balance_sheets, prv) /\ HasKey(m.balance_sheets, cur)
                   /\ HasKey(m.income_statements, cur))
            THEN <<>>
            ELSE LET debt_sum == total_debt(DictGet(m.balance_sheets, prv))
                                   + total_debt(DictGet(m.balance_sheets, cur))
                     ie == DictGet(m.income_statements, cur).interest_expense
                     \* implied_rate = ie / (debt_sum / 2), within [0.005, 0.15]
                     reasonable == 5 * debt_sum <= 2000 * ie /\ 200 * ie <= 15 * debt_sum
                 IN  IF debt_sum <= 0 \/ ie <= 0 THEN <<>>
                     ELSE <<Step(cur, reasonable, None, <<2 * ie, debt_sum>>,
                                 "warning", "msg", "")>>
    IN  ForEachPair(m, body)

WorkingCapitalDeltasCF(m, ta, tp) ==
    LET body(prv, cur) ==
            IF ~(HasKey(m.balance_sheets, prv) /\ HasKey(m.balance_sheets, cur)
                   /\ HasKey(m.cash_flows, cur))
            THEN <<>>
            ELSE LET bs_prev == DictGet(m.balance_sheets, prv)
                     bs_curr == DictGet(m.balance_sheets, cur)
                     cf == DictGet(m.cash_flows, cur)
                     wc_items ==
                         << <<-(bs_curr.accounts_receivable - bs_prev.accounts_receivable),
                              cf.change_in_receivables>>,
                            <<-(bs_curr.inventory - bs_prev.inventory),
                              cf.change_in_inventory>>,
                            <<bs_curr.accounts_payable - bs_prev.accounts_payable,
                              cf.change_in_payables>> >>
                     item(it) ==
                         IF it[1] = 0 /\ it[2] = 0 THEN <<>>
                         ELSE <<CloseStep(cur, it[1], it[2],
                                          Num(Max(ta, 5 * Max(Abs(it[1]), Abs(it[2])))),
                                          "warning", "msg", ta, tp)>>
                 IN  FlatMap(item, wc_items)
    IN  ForEachPair(m, body)

EffectiveTaxRateCheck(m, ta, tp) ==
    LET body(p, ist) ==
            \* etr = tax_expense / ebt, within [-0.05, 0.50]
            LET reasonable ==
                    IF ist.ebt > 0
                    THEN -5 * ist.ebt <= 100 * ist.tax_expense
                           /\ 100 * ist.tax_expense <= 50 * ist.ebt
                    ELSE -5 * ist.ebt >= 100 * ist.tax_expense
                           /\ 100 * ist.tax_expense >= 50 * ist.ebt
            IN  IF ist.ebt = 0 THEN <<>>
                ELSE <<Step(p, reasonable, None, <<ist.tax_expense, ist.ebt>>,
                            "warning", "message", "")>>
    IN  ForEachPeriod(m, m.income_statements, body)

CROSS_STATEMENT_CHECKS ==
    <<"XST-001", "XST-002", "XST-003", "XST-004", "XST-005", "XST-006", "XST-007",
      "XST-008", "XST-009", "XST-010">>

(***************************************************************************)
(* checks/reasonableness.py                                                *)
(***************************************************************************)
\* RSN-001.  Every call of _make_result here passes msg=, so the call raises
\* before any argument is read: a step records that the call is reached (the
\* margin statistics it was given are never observable) and nothing else.
MarginDriftCheck(m, ta, tp) ==
    LET has_rev(p) == HasKey(m.income_statements, p)
                        /\ DictGet(m.income_statements, p).revenue # 0
        hist == {i \in 1..Len(m.historical_periods) : has_rev(m.historical_periods[i])}
        proj(p) == IF has_rev(p)
                   THEN <<Step(p, FALSE, None, None, "warning", "msg", "")>>
                   ELSE <<>>
        margin(name) == IF Cardinality(hist) < 2 THEN <<>>
                        ELSE FlatMap(proj, m.projected_periods)
    IN  FlatMap(margin, <<"Gross Margin", "EBIT Margin", "Net Margin">>)

RevenueGrowthReasonability(m, ta, tp) ==
    LET body(prv, cur) ==
            IF ~(HasKey(m.income_statements, prv) /\ HasKey(m.income_statements, cur))
            THEN <<>>
            ELSE LET rp == DictGet(m.income_statements, prv).revenue
                     rc == DictGet(m.income_statements, cur).revenue
                     \* growth = (rc - rp) / abs(rp), within [-0.30, 0.50]
                     reasonable == -30 * Abs(rp) <= 100 * (rc - rp)
                                     /\ 100 * (rc - rp) <= 50 * Abs(rp)
                 IN  IF rp = 0 THEN <<>>
                     ELSE <<Step(cur, reasonable, None, <<rc - rp, Abs(rp)>>,
                                 IF Abs(rc - rp) < Abs(rp) THEN "warning" ELSE "error",
                                 "msg", "")>>
    IN  ForEachPair(m, body)

LeverageRatioCheck(m, ta, tp) ==
    LET body(p, ist) ==
            IF ~HasKey(m.balance_sheets, p) THEN <<>>
            ELSE LET debt == total_debt(DictGet(m.balance_sheets, p))
                     ebitda == IF ist.ebitda # None /\ ist.ebitda # Num(0)
                               THEN ist.ebitda[1]
                               ELSE ist.ebit + ist.depreciation + ist.amortization
                     lev == IF ebitda > 0
                            THEN <<Step(p, debt <= 8 * ebitda, None, <<debt, ebitda>>,
                                        "warning", "message", "")>>
                            ELSE <<>>
                     cov == IF ist.interest_expense > 0
                            THEN <<Step(p, ist.ebit >= ist.interest_expense, None,
                                        <<ist.ebit, ist.interest_expense>>,
                                        IF ist.ebit < ist.interest_expense
                                        THEN "error" ELSE "warning",
                                        "message", "")>>
                            ELSE <<>>
                 IN  lev \o cov
    IN  ForEachPeriod(m, m.income_statements, body)

WorkingCapitalEfficiency(m, ta, tp) ==
    LET body(p, ist) ==
            IF ~HasKey(m.balance_sheets, p) THEN <<>>
            ELSE LET bs == DictGet(m.balance_sheets, p)
                     \* value = balance / (flow / 365), within [0, high]
                     metric(balance, flow, high) ==
                         <<Step(p, 0 <= 365 * balance /\ 365 * balance <= high * flow,
                                None, <<365 * balance, flow>>, "warning", "message", "")>>
                 IN  (IF ist.revenue > 0
                      THEN metric(bs.accounts_receivable, ist.revenue, 180) ELSE <<>>)
                     \o (IF ist.cogs > 0 THEN metric(bs.inventory, ist.cogs, 365) ELSE <<>>)
                     \o (IF ist.cogs > 0
                         THEN metric(bs.accounts_payable, ist.cogs, 180) ELSE <<>>)
    IN  ForEachPeriod(m, m.income_statements, body)

NegativeBalanceCheck(m, ta, tp) ==
    LET one(p) ==
            LET bsv == IF HasKey(m.balance_sheets, p)
                       THEN LET bs == DictGet(m.balance_sheets, p)
                            IN  <<bs.cash, bs.accounts_receivable, bs.inventory,
                                  bs.total_assets, bs.accounts_payable>>
                       ELSE <<>>
                isv == IF HasKey(m.income_statements, p)
                       THEN LET ist == DictGet(m.income_statements, p)
                            IN  <<ist.revenue, ist.cogs>>
                       ELSE <<>>
                \* if value < -self.tolerance_abs
                flag(value) == IF 100 * value < -ta
                               THEN <<Step(p, FALSE, Num(0), Num(value), "error", "msg", "")>>
                               ELSE <<>>
            IN  FlatMap(flag, bsv \o isv)
    IN  FlatMap(one, get_ordered_periods(m))

CapExToRevenueCheck(m, ta, tp) ==
    LET body(p, ist) ==
            IF ~HasKey(m.cash_flows, p) \/ ist.revenue = 0 THEN <<>>
            ELSE LET capex == Abs(DictGet(m.cash_flows, p).capex)
                     \* ratio = capex / revenue <= 0.40
                     reasonable == IF ist.revenue > 0 THEN 100 * capex <= 40 * ist.revenue
                                   ELSE TRUE
                 IN  <<Step(p, reasonable, None, <<capex, ist.revenue>>,
                            "warning", "message", "")>>
    IN  ForEachPeriod(m, m.income_statements, body)

\* the loop of FCFCheck.run over the periods left, negative_fcf_streak carried along
RECURSIVE FCFLoop(_, _, _, _, _)
FCFLoop(m, ps, streak, ta, tp) ==
    IF ps = <<>> THEN <<>>
    ELSE LET p == Head(ps)
         IN  IF ~HasKey(m.cash_flows, p) THEN FCFLoop(m, Tail(ps), streak, ta, tp)
             ELSE LET cf == DictGet(m.cash_flows, p)
                      computed_fcf == cf.cash_from_operations + cf.capex
                      stated == IF cf.free_cash_flow # None
                                THEN <<CloseStep(p, computed_fcf, cf.free_cash_flow[1],
                                                 None, "error", "message", ta, tp)>>
                                ELSE <<>>
                      streak2 == IF computed_fcf < 0 THEN streak + 1 ELSE 0
                      warn == IF streak2 >= 3
                              THEN <<Step(p, FALSE, None, None, "warning", "message", "")>>
                              ELSE <<>>
                  IN  stated \o warn \o FCFLoop(m, Tail(ps), streak2, ta, tp)

FCFCheck(m, ta, tp) == FCFLoop(m, get_ordered_periods(m), 0, ta, tp)

REASONABLENESS_CHECKS ==
    <<"RSN-001", "RSN-002", "RSN-003", "RSN-004", "RSN-005", "RSN-006", "RSN-007">>

ALL_CHECKS == STRUCTURAL_CHECKS \o CROSS_STATEMENT_CHECKS \o REASONABLENESS_CHECKS

\* the category attribute of each check class
category(id) ==
    IF \E i \in 1..Len(STRUCTURAL_CHECKS) : STRUCTURAL_CHECKS[i] = id THEN "structural"
    ELSE IF \E i \in 1..Len(CROSS_STATEMENT_CHECKS) : CROSS_STATEMENT_CHECKS[i] = id
         THEN "cross_statement"
         ELSE "reasonableness"

\* check.run(model), by check id: the steps of its loop that reach _make_result
Steps(id, m, ta, tp) ==
    CASE id = "STR-001" -> BalanceSheetBalances(m, ta, tp)
      [] id = "STR-002" -> BalanceSheetTotalAssets(m, ta, tp)
      [] id = "STR-003" -> BalanceSheetTotalLiabilities(m, ta, tp)
      [] id = "STR-004" -> BalanceSheetLESum(m, ta, tp)
      [] id = "STR-010" -> IncomeStatementGrossProfit(m, ta, tp)
      [] id = "STR-011" -> IncomeStatementEBIT(m, ta, tp)
      [] id = "STR-012" -> IncomeStatementEBT(m, ta, tp)
      [] id = "STR-013" -> IncomeStatementNetIncome(m, ta, tp)
      [] id = "STR-020" -> CashFlowReconciliation(m, ta, tp)
      [] id = "STR-021" -> CashFlowNetChangeCalc(m, ta, tp)
      [] id = "STR-022" -> CashFlowFromOperationsCalc(m, ta, tp)
      [] id = "STR-030" -> PPENetCalc(m, ta, tp)
      [] id = "STR-031" -> CurrentAssetsBreakdown(m, ta, tp)
      [] id = "STR-032" -> CurrentLiabilitiesBreakdown(m, ta, tp)
      [] id = "STR-033" -> EquityBreakdown(m, ta, tp)
      [] id = "XST-001" -> NetIncomeLinkage(m, ta, tp)
      [] id = "XST-002" -> RetainedEarningsRollforward(m, ta, tp)
      [] id = "XST-003" -> CashEndingToBS(m, ta, tp)
      [] id = "XST-004" -> CashBeginningContinuity(m, ta, tp)
      [] id = "XST-005" -> DALinkage(m, ta, tp)
      [] id = "XST-006" -> PPERollforward(m, ta, tp)
      [] id = "XST-007" -> DebtRollforward(m, ta, tp)
      [] id = "XST-008" -> InterestExpenseReasonability(m, ta, tp)
      [] id = "XST-009" -> WorkingCapitalDeltasCF(m, ta, tp)
      [] id = "XST-010" -> EffectiveTaxRateCheck(m, ta, tp)
      [] id = "RSN-001" -> MarginDriftCheck(m, ta, tp)
      [] id = "RSN-002" -> RevenueGrowthReasonability(m, ta, tp)
      [] id = "RSN-003" -> LeverageRatioCheck(m, ta, tp)
      [] id = "RSN-004" -> WorkingCapitalEfficiency(m, ta, tp)
      [] id = "RSN-005" -> NegativeBalanceCheck(m, ta, tp)
      [] id = "RSN-006" -> CapExToRevenueCheck(m, ta, tp)
      [] id = "RSN-007" -> FCFCheck(m, ta, tp)

\* The outcome of check.run(model): the first step that raises (its _is_close, or
\* its _make_result call with a keyword that is no parameter) ends the run of the
\* check with that exception; otherwise the results of the calls, in order.
Outcome(id, steps, ta) ==
    LET bad == {i \in 1..Len(steps) :
                  steps[i].raises # "" \/ steps[i].kw \notin MakeResultParams}
        first == CHOOSE i \in bad : \A j \in bad : i <= j
    IN  IF bad # {}
        THEN [raised |-> TRUE,
              error |-> IF steps[first].raises # "" THEN steps[first].raises
                        ELSE TypeErrorMsg,
              results |-> <<>>]
        ELSE [raised |-> FALSE, error |-> "",
              results |-> [i \in 1..Len(steps) |->
                             make_result(id, category(id), steps[i], ta)]]

CheckRun(id, m, ta, tp) == Outcome(id, Steps(id, m, ta, tp), ta)

(***************************************************************************)
(* engine.py: VerificationEngine and VerificationReport                    *)
(***************************************************************************)
RECURSIVE Filter(_, _)
Filter(Keep(_), s) ==
    IF s = <<>> THEN <<>>
    ELSE (IF Keep(Head(s)) THEN <<Head(s)>> ELSE <<>>) \o Filter(Keep, Tail(s))

\* VerificationEngine._register_all_checks; enabled is None or <<set of categories>>
register_all_checks(dis, enabled) ==
    LET keep(id) == id \notin dis /\ (enabled = None \/ category(id) \in enabled[1])
    IN  Filter(keep, ALL_CHECKS)

CompletedEntry(id, n) ==
    [check_id |-> id, category |-> category(id), status |-> "completed",
     result_count |-> Num(n), error |-> None]

ErrorEntry(id, msg) ==
    [check_id |-> id, category |-> category(id), status |-> "error",
     result_count |-> None, error |-> <<msg>>]

CountSeverity(results, sev) ==
    Cardinality({i \in 1..Len(results) : results[i].severity = sev})

total_checks(r) == Len(r.results)

pass_count(r) == CountSeverity(r.results, "pass")

fail_count(r) == total_checks(r) - pass_count(r)

critical_count(r) == CountSeverity(r.results, "critical")

\* errors counted together with critical results
error_or_critical_count(r) ==
    CountSeverity(r.results, "error") + CountSeverity(r.results, "critical")

error_count(r) == CountSeverity(r.results, "error")

warning_count(r) == CountSeverity(r.results, "warning")

\* the health with errors looked at before critical results
overall_health_errors_first(r) ==
    IF error_count(r) > 0 THEN "ERRORS_FOUND"
    ELSE IF critical_count(r) > 0 THEN "CRITICAL"
    ELSE IF warning_count(r) > 0 THEN "WARNINGS"
    ELSE "CLEAN"

overall_health(r) ==
    IF critical_count(r) > 0 THEN "CRITICAL"
    ELSE IF error_count(r) > 0 THEN "ERRORS_FOUND"
    ELSE IF warning_count(r) > 0 THEN "WARNINGS"
    ELSE "CLEAN"

\* cmd_run: the exit code of the command line for a report
exit_code(r) ==
    IF overall_health(r) = "CRITICAL" THEN 2
    ELSE IF overall_health(r) = "ERRORS_FOUND" THEN 1
    ELSE 0

\* VerificationReport.summary (the counts; names and timestamp left out)
summary(r) ==
    [overall_health |-> overall_health(r),
     total_checks |-> total_checks(r),
     passed |-> pass_count(r),
     failed |-> fail_count(r),
     by_severity |-> [critical |-> critical_count(r),
                      error |-> error_count(r),
                      warning |-> warning_count(r),
                      info |-> CountSeverity(r.results, "info"),
                      pass |-> pass_count(r)]]

(***************************************************************************)
(* field_mapper.py: normalisation of labels                                *)
(***************************************************************************)
UpperCase == <<"A", "B", "C", "D", "E", "F", "G", "H", "I", "J", "K", "L", "M",
               "N", "O", "P", "Q", "R", "S", "T", "U", "V", "W", "X", "Y", "Z">>

LowerCase == <<"a", "b", "c", "d", "e", "f", "g", "h", "i", "j", "k", "l", "m",
               "n", "o", "p", "q", "r", "s", "t", "u", "v", "w", "x", "y", "z">>

Digits == {"0", "1", "2", "3", "4", "5", "6", "7", "8", "9"}

\* what str.strip() and \s take for whitespace
Whitespace == {" ", "\t", "\n", "\r"}

\* the class [_\-./\\]
Separators == {"_", "-", ".", "/", "\\"}

\* str.lower() on one character
ToLower(c) ==
    IF \E i \in 1..26 : UpperCase[i] = c
    THEN LowerCase[CHOOSE i \in 1..26 : UpperCase[i] = c]
    ELSE c

LowerStr(t) == [i \in 1..Len(t) |-> ToLower(t[i])]

RECURSIVE LStrip(_)
LStrip(t) == IF t # <<>> /\ Head(t) \in Whitespace THEN LStrip(Tail(t)) ELSE t

RECURSIVE RStrip(_)
RStrip(t) ==
    IF t # <<>> /\ t[Len(t)] \in Whitespace THEN RStrip(SubSeq(t, 1, Len(t) - 1)) ELSE t

\* str.strip()
Strip(t) == RStrip(LStrip(t))

\* re.sub(r'\([^)]*\)', '', s): each "(" that has a ")" after it goes, with
\* everything up to the first such ")"
RECURSIVE DropParens(_)
DropParens(t) ==
    IF t = <<>> THEN <<>>
    ELSE IF Head(t) = "(" /\ \E j \in 2..Len(t) : t[j] = ")"
         THEN LET close == CHOOSE j \in 2..Len(t) :
                               t[j] = ")" /\ \A k \in 2..(j - 1) : t[k] # ")"
              IN  DropParens(SubSeq(t, close + 1, Len(t)))
         ELSE <<Head(t)>> \o DropParens(Tail(t))

\* re.sub(r'[_\-./\\]', ' ', s)
SeparatorsToSpaces(t) == [i \in 1..Len(t) |-> IF t[i] \in Separators THEN " " ELSE t[i]]

IsLowerAlnum(c) == (\E i \in 1..26 : LowerCase[i] = c) \/ c \in Digits

\* re.sub(r'[^a-z0-9& ]', '', s)
RECURSIVE DropSpecial(_)
DropSpecial(t) ==
    IF t = <<>> THEN <<>>
    ELSE (IF IsLowerAlnum(Head(t)) \/ Head(t) \in {"&", " "} THEN <<Head(t)>> ELSE <<>>)
            \o DropSpecial(Tail(t))

\* re.sub(r'\s+', ' ', s)
RECURSIVE CollapseSpaces(_)
CollapseSpaces(t) ==
    IF t = <<>> THEN <<>>
    ELSE IF Head(t) \in Whitespace
         THEN <<" ">> \o CollapseSpaces(LStrip(t))
         ELSE <<Head(t)>> \o CollapseSpaces(Tail(t))

normalize(name) ==
    Strip(CollapseSpaces(DropSpecial(SeparatorsToSpaces(DropParens(Strip(LowerStr(name)))))))

\* str.split(): the maximal runs of non-whitespace
RECURSIVE Split(_)
Split(t) ==
    LET u == LStrip(t)
    IN  IF u = <<>> THEN <<>>
        ELSE LET n == IF \E j \in 1..Len(u) : u[j] \in Whitespace
                      THEN (CHOOSE j \in 1..Len(u) :
                               u[j] \in Whitespace /\ \A k \in 1..(j - 1) : u[k] \notin Whitespace) - 1
                      ELSE Len(u)
             IN  <<SubSeq(u, 1, n)>> \o Split(SubSeq(u, n + 1, Len(u)))

\* ' '.join(words)
RECURSIVE Join(_)
Join(words) ==
    IF words = <<>> THEN <<>>
    ELSE IF Len(words) = 1 THEN words[1]
    ELSE words[1] \o <<" ">> \o Join(Tail(words))

fillers ==
    { <<"t","o","t","a","l">>, <<"n","e","t">>, <<"l","e","s","s">>,
      <<"g","r","o","s","s">>, <<"o","f">>, <<"t","h","e">>, <<"a","n","d">>,
      <<"i","n">>, <<"f","r","o","m">>, <<"f","o","r">>, <<"t","o">>, <<"a","t">>,
      <<"o","n">> }

RECURSIVE DropFillers(_)
DropFillers(words) ==
    IF words = <<>> THEN <<>>
    ELSE (IF Head(words) \in fillers THEN <<>> ELSE <<Head(words)>>)
            \o DropFillers(Tail(words))

normalize_aggressive(name) == Join(DropFillers(Split(normalize(name))))

\* `x in y` on strings
Contains(y, x) ==
    \E i \in 0..(Len(y) - Len(x)) : SubSeq(y, i + 1, i + Len(x)) = x

(***************************************************************************)
(* difflib.SequenceMatcher(None, a, b).ratio() for strings under 200       *)
(* characters (no junk, no popular elements)                               *)
(***************************************************************************)
\* the length of the common run of a from i and b from j (0-based), within
\* a[..ahi) and b[..bhi)
RECURSIVE RunLength(_, _, _, _, _, _)
RunLength(a, b, i, j, ahi, bhi) ==
    IF i < ahi /\ j < bhi /\ a[i + 1] = b[j + 1]
    THEN 1 + RunLength(a, b, i + 1, j + 1, ahi, bhi)
    ELSE 0

\* find_longest_match(alo, ahi, blo, bhi): <<i, j, k>>, the longest block,
\* of those the one starting earliest in a, and of those earliest in b
find_longest_match(a, b, alo, ahi, blo, bhi) ==
    LET blocks == {<<i, j, RunLength(a, b, i, j, ahi, bhi)>> :
                      i \in alo..(ahi - 1), j \in blo..(bhi - 1)}
        better(x, y) == \/ x[3] > y[3]
                        \/ x[3] = y[3] /\ x[1] < y[1]
                        \/ x[3] = y[3] /\ x[1] = y[1] /\ x[2] <= y[2]
    IN  IF blocks = {} THEN <<alo, blo, 0>>
        ELSE CHOOSE x \in blocks : \A y \in blocks : better(x, y)

\* the sum of the sizes of get_matching_blocks() within a[alo..ahi), b[blo..bhi):
\* the longest block m, and the blocks to its left and to its right
RECURSIVE Matches(_, _, _, _, _, _)
RECURSIVE MatchesAround(_, _, _, _, _, _, _)
MatchesAround(a, b, alo, ahi, blo, bhi, m) ==
    IF m[3] = 0 THEN 0
    ELSE m[3] + Matches(a, b, alo, m[1], blo, m[2])
              + Matches(a, b, m[1] + m[3], ahi, m[2] + m[3], bhi)

Matches(a, b, alo, ahi, blo, bhi) ==
    IF alo >= ahi \/ blo >= bhi THEN 0
    ELSE MatchesAround(a, b, alo, ahi, blo, bhi,
                       find_longest_match(a, b, alo, ahi, blo, bhi))

\* ratio() as the fraction <<2 * matches, len(a) + len(b)>>; 1.0 for two
\* empty strings
ratio(a, b) ==
    IF Len(a) + Len(b) = 0 THEN <<1, 1>>
    ELSE <<2 * Matches(a, b, 0, Len(a), 0, Len(b)), Len(a) + Len(b)>>

(***************************************************************************)
(* The texts used below: field names, aliases and labels                   *)
(***************************************************************************)
T_revenue == <<"r", "e", "v", "e", "n", "u", "e">>

T_sales == <<"s", "a", "l", "e", "s">>

T_net_revenue == <<"n", "e", "t", " ", "r", "e", "v", "e", "n", "u", "e">>

T_revenue_other == <<"r", "e", "v", "e", "n", "u", "e", "_", "o", "t", "h", "e", "r">>

T_other_revenue == <<"o", "t", "h", "e", "r", " ", "r", "e", "v", "e", "n", "u", "e">>

T_f1 == <<"f", "1">>

T_f2 == <<"f", "2">>

T_alpha == <<"a", "l", "p", "h", "a">>

T_alpha2 == <<"a", "l", "p", "h", "a", "2">>

T_Sales == <<"S", "a", "l", "e", "s">>

T_cogs == <<"c", "o", "g", "s">>

T_abc == <<"a", "b", "c">>

T_abd == <<"a", "b", "d">>

T_capex == <<"c", "a", "p", "e", "x">>

T_Capital_Spend == <<"C", "a", "p", "i", "t", "a", "l", " ", "S", "p", "e", "n", "d">>

T_dividends_paid == <<"d", "i", "v", "i", "d", "e", "n", "d", "s", "_", "p", "a", "i", "d">>

T_Dividends == <<"D", "i", "v", "i", "d", "e", "n", "d", "s">>

T_revenu == <<"r", "e", "v", "e", "n", "u">>

T_alph == <<"a", "l", "p", "h">>

T_Revenue == <<"R", "e", "v", "e", "n", "u", "e">>

T__SALES_ == <<" ", "S", "A", "L", "E", "S", " ">>

T_Net_Revenue == <<"N", "e", "t", " ", "R", "e", "v", "e", "n", "u", "e">>

T_Other_Revenue == <<"O", "t", "h", "e", "r", " ", "R", "e", "v", "e", "n", "u", "e">>

T_Total_Revenue_net == <<"T", "o", "t", "a", "l", " ", "R", "e", "v", "e", "n", "u", "e", " ", "(", "n", "e", "t", ")">>

T_revenux == <<"r", "e", "v", "e", "n", "u", "x">>

T_revenua == <<"r", "e", "v", "e", "n", "u", "a">>

T_revenub == <<"r", "e", "v", "e", "n", "u", "b">>

T_revenuc == <<"r", "e", "v", "e", "n", "u", "c">>

T_ab == <<"a", "b">>

T_abcx == <<"a", "b", "c", "x">>

T_Alpha2 == <<"A", "l", "p", "h", "a", "2">>

T_blank == <<" ", " ">>

T_net_parens == <<"(", "n", "e", "t", ")">>

T_sp_Revenue == <<" ", "R", "e", "v", "e", "n", "u", "e">>

(***************************************************************************)
(* field_mapper.py: MappingConfig, load_mapping_config                     *)
(***************************************************************************)
\* A raw configuration (the YAML document) is
\* [stmt_type |-> the one statement type it declares fields for,
\*  settings |-> [fuzzy_threshold, auto_sign_normalization],
\*  fields |-> sequence of <<internal_field, declared aliases>>];
\* the configuration loaded from it keeps stmt_type beside the two indexes of
\* that statement type.

\* list(set(xs)): the distinct elements in an order the hash seed decides
ListOfSet(xs) ==
    LET S == {xs[i] : i \in 1..Len(xs)}
    IN  {q \in [1..Cardinality(S) -> S] : \A i, j \in 1..Cardinality(S) : i # j => q[i] # q[j]}

\* normalized_aliases before deduplication
NormalizedAliases(field_def) ==
    [i \in 1..Len(field_def[2]) |-> normalize(field_def[2][i])] \o <<normalize(field_def[1])>>

\* the inner loop, were a later field to take over an alias already indexed
RECURSIVE IndexAliasesLastWins(_, _, _)
IndexAliasesLastWins(reverse, aliases, internal_field) ==
    IF aliases = <<>> THEN reverse
    ELSE IndexAliasesLastWins(
             IF HasKey(reverse, Head(aliases))
             THEN [i \in 1..Len(reverse) |->
                      IF reverse[i][1] = Head(aliases)
                      THEN <<Head(aliases), internal_field>> ELSE reverse[i]]
             ELSE Append(reverse, <<Head(aliases), internal_field>>),
             Tail(aliases), internal_field)

\* the inner loop over the normalized aliases of one field: first mapping wins
RECURSIVE IndexAliases(_, _, _)
IndexAliases(reverse, aliases, internal_field) ==
    IF aliases = <<>> THEN reverse
    ELSE IndexAliases(IF HasKey(reverse, Head(aliases)) THEN reverse
                      ELSE Append(reverse, <<Head(aliases), internal_field>>),
                      Tail(aliases), internal_field)

\* the reverse index, were the aliases indexed a round at a time: the r-th
\* enumerated alias of every field, for r = 1, 2, ...
RECURSIVE IndexRound(_, _, _, _, _)
IndexRound(reverse, fields, orders, r, i) ==
    IF i > Len(fields) THEN reverse
    ELSE IndexRound(IF r <= Len(orders[i])
                    THEN IndexAliases(reverse, <<orders[i][r]>>, fields[i][1])
                    ELSE reverse,
                    fields, orders, r, i + 1)

RECURSIVE IndexRounds(_, _, _, _, _)
IndexRounds(reverse, fields, orders, r, i) ==
    IF \A f \in i..Len(fields) : r > Len(orders[f]) THEN reverse
    ELSE IndexRounds(IndexRound(reverse, fields, orders, r, i), fields, orders, r + 1, i)

BuildReverseInterleaved(reverse, fields, orders, i) ==
    IndexRounds(reverse, fields, orders, 1, i)

\* the loop over stmt_mappings.items(); orders[i] is list(set(...)) of field i
RECURSIVE BuildReverse(_, _, _, _)
BuildReverse(reverse, fields, orders, i) ==
    IF i > Len(fields) THEN reverse
    ELSE BuildReverse(IndexAliases(reverse, orders[i], fields[i][1]), fields, orders, i + 1)

load_mapping_config(raw, orders) ==
    [stmt_type |-> raw.stmt_type,
     settings |-> raw.settings,
     alias_index |-> [i \in 1..Len(raw.fields) |-> <<raw.fields[i][1], orders[i]>>],
     reverse_index |-> BuildReverse(<<>>, raw.fields, orders, 1)]

\* {**base, **override} of two dicts held as records
DictMerge(base, override) ==
    [k \in DOMAIN base \cup DOMAIN override |->
        IF k \in DOMAIN override THEN override[k] ELSE base[k]]

\* `for na in aliases: merged.reverse_index[stmt_type][na] = internal_field`
RECURSIVE OverlayAliases(_, _, _)
OverlayAliases(reverse, aliases, internal_field) ==
    IF aliases = <<>> THEN reverse
    ELSE OverlayAliases(DictSet(reverse, Head(aliases), internal_field),
                        Tail(aliases), internal_field)

\* the orders list(existing) may give for the aliases of field i of the
\* override: both lists without duplicates if the base has the field, the
\* override's list as it is if not
MergedAliases(alias_index, internal_field, aliases) ==
    IF HasKey(alias_index, internal_field)
    THEN ListOfSet(DictGet(alias_index, internal_field) \o aliases)
    ELSE {aliases}

\* the loop `for internal_field, aliases in override.alias_index...items()`
\* from field i on; merged holds the two indexes, orders[i] is the list made
\* for field i
RECURSIVE Overlay(_, _, _, _)
Overlay(merged, fields, orders, i) ==
    IF i > Len(fields) THEN merged
    ELSE Overlay([merged EXCEPT
                     !.alias_index = DictSet(@, fields[i][1], orders[i]),
                     !.reverse_index = OverlayAliases(@, fields[i][2], fields[i][1])],
                 fields, orders, i + 1)

\* merge_mapping_configs(base, override) for two configurations of one
\* statement type
merge_mapping_configs(base, override, orders) ==
    Overlay([stmt_type |-> base.stmt_type,
             settings |-> DictMerge(base.settings, override.settings),
             alias_index |-> base.alias_index,
             reverse_index |-> base.reverse_index],
            override.alias_index, orders, 1)

\* the lists the merge may make for the fields of the override; a field of the
\* override is listed once, so the base's list is the one it is merged with
MergeOrders(base, override) ==
    {o \in [1..Len(override.alias_index) ->
                UNION {MergedAliases(base.alias_index, override.alias_index[i][1],
                                     override.alias_index[i][2]) :
                          i \in 1..Len(override.alias_index)}] :
        \A i \in 1..Len(override.alias_index) :
            o[i] \in MergedAliases(base.alias_index, override.alias_index[i][1],
                                   override.alias_index[i][2])}

\* the orders list(set(...)) may give for the fields of raw
AliasOrders(raw) ==
    {o \in [1..Len(raw.fields) -> UNION {ListOfSet(NormalizedAliases(raw.fields[i])) :
                                            i \in 1..Len(raw.fields)}] :
        \A i \in 1..Len(raw.fields) : o[i] \in ListOfSet(NormalizedAliases(raw.fields[i]))}

(***************************************************************************)
(* field_mapper.py: FieldMapper.resolve_field, map_fields                  *)
(***************************************************************************)
MappingResult(input_name, norm, internal_field, match_type, confidence, cands) ==
    [input_name |-> input_name, normalized_name |-> norm,
     internal_field |-> internal_field, match_type |-> match_type,
     confidence |-> confidence, fuzzy_candidates |-> cands]

\* the substring stage, were the last matching entry to win
SubstringHitLast(reverse, norm) ==
    LET hits == {i \in 1..Len(reverse) :
                    /\ Len(reverse[i][1]) > 3
                    /\ (Contains(norm, reverse[i][1]) \/ Contains(reverse[i][1], norm))}
    IN  IF hits = {} THEN 0 ELSE CHOOSE i \in hits : \A j \in hits : i >= j

\* the first entry of the reverse index whose alias, longer than 3, contains
\* norm or is contained in it (0 if none)
SubstringHit(reverse, norm) ==
    LET hits == {i \in 1..Len(reverse) :
                    /\ Len(reverse[i][1]) > 3
                    /\ (Contains(norm, reverse[i][1]) \/ Contains(reverse[i][1], norm))}
    IN  IF hits = {} THEN 0 ELSE CHOOSE i \in hits : \A j \in hits : i <= j

\* ratio * 100 >= threshold, for ratio = <<n, d>>
AtLeast(r, threshold) == 100 * r[1] >= threshold * r[2]

\* r > q as fractions
Greater(r, q) == r[1] * q[2] > q[1] * r[2]

\* (r - q) * 100 < 5 as fractions
CloserThan5(r, q) == 100 * (r[1] * q[2] - q[1] * r[2]) < 5 * r[2] * q[2]

\* candidates: <<field_name, alias, ratio>> for the entries at or above threshold
RECURSIVE Candidates(_, _, _)
Candidates(reverse, norm, threshold) ==
    IF reverse = <<>> THEN <<>>
    ELSE LET r == ratio(norm, Head(reverse)[1])
         IN  (IF AtLeast(r, threshold) THEN << <<Head(reverse)[2], Head(reverse)[1], r>> >>
              ELSE <<>>) \o Candidates(Tail(reverse), norm, threshold)

\* candidates.sort(key=ratio, reverse=True): stable, equal ratios keep their order
RECURSIVE InsertByRatio(_, _)
InsertByRatio(sorted, c) ==
    IF sorted = <<>> THEN <<c>>
    ELSE IF Greater(c[3], Head(sorted)[3]) THEN <<c>> \o sorted
    ELSE <<Head(sorted)>> \o InsertByRatio(Tail(sorted), c)

RECURSIVE SortByRatio(_, _)
SortByRatio(sorted, cands) ==
    IF cands = <<>> THEN sorted
    ELSE SortByRatio(InsertByRatio(sorted, Head(cands)), Tail(cands))

\* stage 4, were the best candidate to win whatever the second one is
FuzzyResultBestWins(input_name, norm, cands) ==
    MappingResult(input_name, norm, <<cands[1][1]>>, "fuzzy", cands[1][3],
                  [i \in 1..(IF Len(cands) < 3 THEN Len(cands) ELSE 3) |->
                      <<cands[i][2], cands[i][3]>>])

\* stage 4 on the sorted candidates
FuzzyResult(input_name, norm, cands) ==
    LET fuzzy_cands == [i \in 1..(IF Len(cands) < 3 THEN Len(cands) ELSE 3) |->
                           <<cands[i][2], cands[i][3]>>]
        ambiguous == /\ Len(cands) > 1
                     /\ cands[1][1] # cands[2][1]
                     /\ CloserThan5(cands[1][3], cands[2][3])
    IN  IF ambiguous
        THEN MappingResult(input_name, norm, None, "unmapped", <<0, 100>>, fuzzy_cands)
        ELSE MappingResult(input_name, norm, <<cands[1][1]>>, "fuzzy", cands[1][3],
                           fuzzy_cands)

\* stages 3 to 5, given the substring hit and the sorted fuzzy candidates
LateStages(config, input_name, norm, hit, cands) ==
    IF hit # 0
    THEN MappingResult(input_name, norm, <<config.reverse_index[hit][2]>>, "alias",
                       <<85, 100>>, <<>>)
    ELSE IF config.settings.fuzzy_threshold > 0 /\ cands # <<>>
    THEN FuzzyResult(input_name, norm, cands)
    ELSE MappingResult(input_name, norm, None, "unmapped", <<0, 100>>, <<>>)

ResolveNormalized(config, input_name, norm, norm_agg) ==
    IF HasKey(config.reverse_index, norm)
    THEN MappingResult(input_name, norm, <<DictGet(config.reverse_index, norm)>>,
                       "exact", <<100, 100>>, <<>>)
    ELSE IF HasKey(config.reverse_index, norm_agg)
    THEN MappingResult(input_name, norm, <<DictGet(config.reverse_index, norm_agg)>>,
                       "alias", <<95, 100>>, <<>>)
    ELSE LateStages(config, input_name, norm,
                    SubstringHit(config.reverse_index, norm),
                    SortByRatio(<<>>, Candidates(config.reverse_index, norm,
                                                  config.settings.fuzzy_threshold)))

resolve_field(config, input_name) ==
    ResolveNormalized(config, input_name, normalize(input_name),
                      normalize_aggressive(input_name))

\* d.get(k, default)
DictGetOr(d, k, default) == IF HasKey(d, k) THEN DictGet(d, k) ELSE default

MappingDiagnostics(n) ==
    [total_input_fields |-> n, mapped_count |-> 0, unmapped_count |-> 0,
     exact_matches |-> 0, alias_matches |-> 0, fuzzy_matches |-> 0,
     results |-> <<>>, unmapped_fields |-> <<>>, warnings |-> <<>>]

\* the body of the loop of map_fields for a label that is not blank, given its
\* MappingResult: <<mapping, used_internal_fields, diag>> afterwards
MapOne(input_name, result, mapping, used, diag) ==
    LET d1 == [diag EXCEPT !.results = Append(@, result)]
    IN  IF result.internal_field # None
        THEN IF result.internal_field[1] \in used
             THEN <<mapping, used,
                    [d1 EXCEPT !.warnings =
                        Append(@, [kind |-> "duplicate", input_name |-> input_name,
                                   internal_field |-> result.internal_field[1]])]>>
             ELSE <<DictSet(mapping, input_name, result.internal_field[1]),
                    used \cup {result.internal_field[1]},
                    [d1 EXCEPT
                        !.mapped_count = @ + 1,
                        !.exact_matches = @ + (IF result.match_type = "exact" THEN 1 ELSE 0),
                        !.alias_matches = @ + (IF result.match_type = "alias" THEN 1 ELSE 0),
                        !.fuzzy_matches = @ + (IF result.match_type = "fuzzy" THEN 1 ELSE 0),
                        !.warnings =
                            IF result.match_type = "fuzzy"
                            THEN Append(@, [kind |-> "fuzzy", input_name |-> input_name,
                                            internal_field |-> result.internal_field[1]])
                            ELSE @]>>
        ELSE <<mapping, used,
               [d1 EXCEPT
                   !.unmapped_count = @ + 1,
                   !.unmapped_fields = Append(@, input_name),
                   !.warnings =
                       IF result.fuzzy_candidates # <<>>
                       THEN Append(@, [kind |-> "ambiguous", input_name |-> input_name,
                                       internal_field |-> <<>>])
                       ELSE @]>>

\* the configurations and the labels the mapper is run on
Settings(threshold, sign) ==
    [fuzzy_threshold |-> threshold, auto_sign_normalization |-> sign]

\* scenario S4: revenue (sales, net revenue), revenue_other (other revenue)
RawS4 ==
    [stmt_type |-> "income_statement", settings |-> Settings(70, TRUE),
     fields |-> << <<T_revenue, <<T_sales, T_net_revenue>> >>,
                   <<T_revenue_other, <<T_other_revenue>> >> >>]

\* two fields with the aliases alpha and alpha2
RawAlpha ==
    [stmt_type |-> "income_statement", settings |-> Settings(70, TRUE),
     fields |-> << <<T_f1, <<T_alpha>> >>, <<T_f2, <<T_alpha2>> >> >>]

\* two fields that both declare the alias "Sales"
RawCollide ==
    [stmt_type |-> "income_statement", settings |-> Settings(85, TRUE),
     fields |-> << <<T_revenue, <<T_Sales>> >>, <<T_cogs, <<T_sales>> >> >>]

\* aliases too short for the substring stage
RawShort ==
    [stmt_type |-> "income_statement", settings |-> Settings(70, FALSE),
     fields |-> << <<T_f1, <<T_abc>> >>, <<T_f2, <<T_abd>> >> >>]

\* three aliases as close to one another as to the label "revenux": the field
\* revenua with the alias revenub, and the field revenuc
RawNearTie ==
    [stmt_type |-> "income_statement", settings |-> Settings(70, TRUE),
     fields |-> << <<T_revenua, <<T_revenub>> >>, <<T_revenuc, <<>> >> >>]

\* the same with fuzzy_threshold 0
RawNoFuzzy == [RawShort EXCEPT !.settings = Settings(0, FALSE)]

RawCashFlow(sign) ==
    [stmt_type |-> "cash_flow", settings |-> Settings(85, sign),
     fields |-> << <<T_capex, <<T_Capital_Spend>> >>,
                   <<T_dividends_paid, <<T_Dividends>> >> >>]

\* raw with its fields listed the other way round
Reversed(raw) == [raw EXCEPT !.fields = <<raw.fields[2], raw.fields[1]>>]

RawConfigs ==
    {RawS4, Reversed(RawS4), RawAlpha, Reversed(RawAlpha), RawCollide,
     Reversed(RawCollide), RawShort, RawNoFuzzy, RawCashFlow(TRUE), RawCashFlow(FALSE),
     RawNearTie}

\* the configurations load_mapping_config can return for them
LoadedConfigs ==
    UNION {{load_mapping_config(raw, o) : o \in AliasOrders(raw)} : raw \in RawConfigs}

\* the settings a custom configuration may declare: both keys, one, none
PartialSettings(settings) ==
    {[k \in D |-> settings[k]] : D \in {{}, {"fuzzy_threshold"}, DOMAIN settings}}

\* the configurations layered on the loaded one
Overrides ==
    UNION {{[c EXCEPT !.settings = s] : s \in PartialSettings(c.settings)} :
              c \in UNION {{load_mapping_config(raw, o) : o \in AliasOrders(raw)} :
                              raw \in {RawAlpha, RawCollide, RawCashFlow(FALSE)}}}

Labels ==
    {T_revenu, T_alph, T_Revenue, T_revenue, T_Sales, T__SALES_, T_Net_Revenue,
     T_Other_Revenue, T_revenue_other, T_Total_Revenue_net, T_revenux, T_ab, T_abcx,
     T_alpha, T_Alpha2, T_cogs, T_capex, T_Dividends, T_blank, T_net_parens, <<>>}

\* the labels of the rows handed to the parsers
RowLabels == {T_Revenue, T_Sales, T_revenue, T_sp_Revenue, T_capex, T_Dividends}

\* resolve_field for the loaded configurations and these labels, computed once
ResolveTable ==
    [config \in LoadedConfigs |->
        [input_name \in Labels \cup RowLabels \cup {Strip(l) : l \in RowLabels} |->
            resolve_field(config, input_name)]]

\* self.resolve_field(input_name, statement_type)
Resolved(config, input_name) ==
    IF config \in DOMAIN ResolveTable /\ input_name \in DOMAIN ResolveTable[config]
    THEN ResolveTable[config][input_name]
    ELSE resolve_field(config, input_name)

RECURSIVE MapLoop(_, _, _)
MapLoop(config, names, acc) ==
    IF names = <<>> THEN acc
    ELSE IF Head(names) = <<>> \/ Strip(Head(names)) = <<>>
    THEN MapLoop(config, Tail(names), acc)
    ELSE MapLoop(config, Tail(names),
                 MapOne(Head(names), Resolved(config, Head(names)),
                        acc[1], acc[2], acc[3]))

\* map_fields: [mapping, diag]
map_fields(config, input_fields) ==
    LET out == MapLoop(config, input_fields,
                       <<<<>>, {}, MappingDiagnostics(Len(input_fields))>>)
    IN  [mapping |-> out[1], diag |-> out[3]]

(***************************************************************************)
(* field_mapper.py: normalize_signs                                        *)
(***************************************************************************)
\* the names of the fields, as the strings used for attributes and dict keys
NEGATIVE_CF_FIELDS ==
    {"capex", "acquisitions", "purchase_of_investments", "debt_repayment",
     "share_repurchases", "dividends_paid"}

\* normalize_signs, were it to negate the outflow fields whatever their sign
normalize_signs_negating(data, statement_type, config) ==
    IF ~config.settings.auto_sign_normalization THEN data
    ELSE IF statement_type = "cash_flow"
    THEN [k \in DOMAIN data |-> IF k \in NEGATIVE_CF_FIELDS THEN -data[k] ELSE data[k]]
    ELSE data

\* data is a dict from field names to numbers, held as a function
normalize_signs(data, statement_type, config) ==
    IF ~config.settings.auto_sign_normalization THEN data
    ELSE IF statement_type = "cash_flow"
    THEN [k \in DOMAIN data |->
             IF k \in NEGATIVE_CF_FIELDS /\ data[k] > 0 THEN -data[k] ELSE data[k]]
    ELSE data

(***************************************************************************)
(* stacked_parser.py: the regular expressions                              *)
(***************************************************************************)
\* A pattern is a term: a literal text, a character class, p?, p*, an
\* alternation, a concatenation, \b, ^ or $.  A character that is no ASCII is
\* written as its name between angle brackets; \s* is WS.
Lit(t) == <<"lit", t>>

In(S) == <<"set", S>>

Opt(p) == <<"opt", p>>

Star(p) == <<"star", p>>

Alt(ps) == <<"alt", ps>>

Cat(ps) == <<"cat", ps>>

WB == <<"wb">>

BOL == <<"bol">>

EOL == <<"eol">>

WS1 == In(Whitespace)

WS == Star(WS1)

\* \w
WordChars ==
    {UpperCase[i] : i \in 1..26} \cup {LowerCase[i] : i \in 1..26} \cup Digits \cup {"_"}

IsWord(t, i) == i \in 1..Len(t) /\ t[i] \in WordChars

\* the positions after the matches of p that begin at position i of t
RECURSIVE Ends(_, _, _)
Ends(p, t, i) ==
    CASE p[1] = "lit" ->
             IF i + Len(p[2]) - 1 <= Len(t) /\ SubSeq(t, i, i + Len(p[2]) - 1) = p[2]
             THEN {i + Len(p[2])} ELSE {}
      [] p[1] = "set" -> IF i <= Len(t) /\ t[i] \in p[2] THEN {i + 1} ELSE {}
      [] p[1] = "opt" -> {i} \cup Ends(p[2], t, i)
      [] p[1] = "star" ->
             {i} \cup UNION {Ends(p, t, j) : j \in Ends(p[2], t, i) \ {i}}
      [] p[1] = "alt" -> UNION {Ends(p[2][k], t, i) : k \in 1..Len(p[2])}
      [] p[1] = "cat" ->
             IF p[2] = <<>> THEN {i}
             ELSE UNION {Ends(Cat(Tail(p[2])), t, j) : j \in Ends(Head(p[2]), t, i)}
      [] p[1] = "wb" -> IF IsWord(t, i - 1) # IsWord(t, i) THEN {i} ELSE {}
      [] p[1] = "bol" -> IF i = 1 THEN {i} ELSE {}
      [] p[1] = "eol" ->
             IF i = Len(t) + 1 \/ (i = Len(t) /\ t[i] = "\n") THEN {i} ELSE {}

\* bool(re.search(p, t))
re_search(p, t) == \E i \in 1..Len(t) + 1 : Ends(p, t, i) # {}

\* bool(re.match(p, t))
re_match(p, t) == Ends(p, t, 1) # {}

STOP_PATTERNS ==
    << Cat(<<Lit(<<"d", "c", "f">>), WB>>),
       Cat(<<Lit(<<"v", "a", "l", "u", "a", "t", "i", "o", "n">>), WB>>),
       Lit(<<"s", "e", "n", "s", "i", "t", "i", "v", "i", "t", "y">>),
       Cat(<<Lit(<<"s", "c", "e", "n", "a", "r", "i", "o">>), WS, Lit(<<"a">>),
             Alt(<<Lit(<<"s", "s", "u", "m">>), Lit(<<"n", "a", "l", "y">>)>>)>>),
       Cat(<<Lit(<<"f", "o", "o", "t", "b", "a", "l", "l">>), WS, Lit(<<"f", "i", "e", "l",
             "d">>)>>),
       Cat(<<Lit(<<"w", "a", "c", "c">>), WS, In({"<down-arrow>", "<up-arrow>"})>>),
       Cat(<<Lit(<<"c", "o", "m", "p">>), Opt(Lit(<<"s">>)), WS, Alt(<<Lit(<<"t", "a", "b",
             "l", "e">>), Lit(<<"a", "n", "a", "l", "y">>)>>)>>),
       Lit(<<"c", "o", "m", "p", "a", "r", "a", "b", "l", "e">>),
       Lit(<<"m", "u", "l", "t", "i", "p", "l", "e", "s">>),
       Cat(<<WB, Lit(<<"l", "b", "o">>), WB>>),
       Cat(<<Lit(<<"m", "o", "n", "t", "e">>), WS, Lit(<<"c", "a", "r", "l", "o">>)>>) >>

SECTION_PATTERNS ==
    << <<"income_statement",
          << Cat(<<Lit(<<"i", "n", "c", "o", "m", "e">>), WS, Lit(<<"s", "t", "a", "t", "e",
                "m", "e", "n", "t">>)>>),
             Cat(<<Lit(<<"p", "r", "o", "f", "i", "t">>), WS, Opt(Alt(<<Lit(<<"&">>),
                   Lit(<<"a", "n", "d">>)>>)), WS, Lit(<<"l", "o", "s", "s">>)>>),
             Cat(<<WB, Lit(<<"p">>), WS, Opt(Lit(<<"&">>)), WS, Lit(<<"l">>), WB>>),
             Cat(<<Lit(<<"s", "t", "a", "t", "e", "m", "e", "n", "t">>), WS, Lit(<<"o",
                   "f">>), WS, Alt(<<Lit(<<"p", "r", "o", "f", "i", "t">>), Lit(<<"i", "n",
                   "c", "o", "m", "e">>), Lit(<<"o", "p", "e", "r", "a", "t", "i", "o", "n",
                   "s">>)>>)>>) >> >>,
       <<"balance_sheet",
          << Cat(<<Lit(<<"b", "a", "l", "a", "n", "c", "e">>), WS, Lit(<<"s", "h", "e", "e",
                "t">>)>>),
             Cat(<<Lit(<<"s", "t", "a", "t", "e", "m", "e", "n", "t">>), WS, Lit(<<"o",
                   "f">>), WS, Opt(Cat(<<Lit(<<"f", "i", "n", "a", "n", "c", "i", "a",
                   "l">>), WS>>)), Lit(<<"p", "o", "s", "i", "t", "i", "o", "n">>)>>) >> >>,
       <<"cash_flow",
          << Cat(<<Lit(<<"c", "a", "s", "h">>), WS, Lit(<<"f", "l", "o", "w">>)>>),
             Cat(<<Lit(<<"s", "t", "a", "t", "e", "m", "e", "n", "t">>), WS, Lit(<<"o",
                   "f">>), WS, Lit(<<"c", "a", "s", "h">>), WS, Lit(<<"f", "l", "o", "w">>),
                   Opt(Lit(<<"s">>))>>) >> >> >>

SKIP_ROW_PATTERNS ==
    << Cat(<<BOL, Lit(<<"a", "s", "s", "e", "t">>), Opt(Lit(<<"s">>)), EOL>>),
       Cat(<<BOL, Lit(<<"e", "q", "u", "i", "t", "y">>), WS, Alt(<<Lit(<<"&">>), Lit(<<"a",
             "n", "d">>)>>), WS, Lit(<<"l", "i", "a", "b", "i", "l", "i", "t", "i", "e",
             "s">>), EOL>>),
       Cat(<<BOL, Alt(<<Lit(<<"e", "q", "u", "i", "t", "y">>), Lit(<<"l", "i", "a", "b",
             "i", "l", "i", "t", "i", "e", "s">>)>>), EOL>>),
       Cat(<<BOL, Lit(<<"c", "u", "r", "r", "e", "n", "t">>), WS, Alt(<<Lit(<<"a", "s", "s",
             "e", "t", "s">>), Lit(<<"l", "i", "a", "b", "i", "l", "i", "t", "i", "e",
             "s">>)>>), EOL>>),
       Cat(<<BOL, Lit(<<"n", "o", "n">>), Star(In(Whitespace \cup {"-"})), Lit(<<"c", "u",
             "r", "r", "e", "n", "t">>), WS, Alt(<<Lit(<<"a", "s", "s", "e", "t", "s">>),
             Lit(<<"l", "i", "a", "b", "i", "l", "i", "t", "i", "e", "s">>)>>), EOL>>),
       Cat(<<BOL, Lit(<<"o", "p", "e", "r", "a", "t", "i", "n", "g">>), WS, Lit(<<"a", "c",
             "t", "i", "v", "i", "t", "i", "e", "s">>), EOL>>),
       Cat(<<BOL, Lit(<<"i", "n", "v", "e", "s", "t", "i", "n", "g">>), WS, Lit(<<"a", "c",
             "t", "i", "v", "i", "t", "i", "e", "s">>), EOL>>),
       Cat(<<BOL, Lit(<<"f", "i", "n", "a", "n", "c", "i", "n", "g">>), WS, Lit(<<"a", "c",
             "t", "i", "v", "i", "t", "i", "e", "s">>), EOL>>),
       Cat(<<BOL, Lit(<<"c", "h", "a", "n", "g", "e">>), Opt(Lit(<<"s">>)), WS, Lit(<<"i",
             "n">>), WS, Lit(<<"w", "o", "r", "k", "i", "n", "g">>), WS, Lit(<<"c", "a",
             "p", "i", "t", "a", "l">>), EOL>>),
       Cat(<<BOL, Lit(<<"t", "o", "t", "a", "l">>), WS, Lit(<<"i", "n", "c", "o", "m",
             "e">>), EOL>>),
       Cat(<<BOL, Lit(<<"t", "o", "t", "a", "l">>), WS, Lit(<<"e", "x", "p", "e", "n", "s",
             "e">>), Opt(Lit(<<"s">>)), EOL>>),
       Cat(<<BOL, Lit(<<"t", "o", "t", "a", "l">>), WS, Lit(<<"e", "x", "p", "e", "n", "d",
             "i", "t", "u", "r", "e">>), EOL>>) >>

PERIOD_RE ==
    Cat(<<BOL, Opt(Alt(<<Lit(<<"f", "y">>), Lit(<<"c", "y">>), Cat(<<Lit(<<"q">>), In({"1",
          "2", "3", "4"}), Opt(In(Whitespace \cup {"-"}))>>), Cat(<<Lit(<<"h">>), In({"1",
          "2"}), Opt(In(Whitespace \cup {"-"}))>>)>>)), Cat(<<In(Digits), In(Digits),
          In(Digits), In(Digits)>>), WS, Opt(In({"e", "p", "f", "a", "b"})), EOL>>)

(***************************************************************************)
(* stacked_parser.py: cells, rows and the helpers of parse_stacked_sheet   *)
(***************************************************************************)
\* A cell of a sheet is None, Num(n) for a number or Str(text) for a string;
\* a row is the sequence of its cells and a sheet the sequence of its rows.
\* Rows and columns are counted from 0 as in the source: row i of all_rows
\* is all_rows[i + 1].
Str(text) == <<"str", text>>

\* isinstance(v, str)
IsStr(v) == Len(v) = 2

\* isinstance(v, (int, float))
IsNumber(v) == Len(v) = 1

DigitTexts == <<"0", "1", "2", "3", "4", "5", "6", "7", "8", "9">>

\* str(n) for an int n >= 0
RECURSIVE NatText(_)
NatText(n) ==
    IF n < 10 THEN <<DigitTexts[n + 1]>>
    ELSE NatText(n \div 10) \o <<DigitTexts[(n % 10) + 1]>>

\* str(v) for a cell that is not None; the numbers of the cells are ints
StrOf(v) ==
    IF IsStr(v) THEN v[2]
    ELSE IF v[1] < 0 THEN <<"-">> \o NatText(-v[1]) ELSE NatText(v[1])

\* s.replace(c, '') for every c of chars
RECURSIVE Without(_, _)
Without(t, chars) ==
    IF t = <<>> THEN <<>>
    ELSE (IF Head(t) \in chars THEN <<>> ELSE <<Head(t)>>) \o Without(Tail(t), chars)

\* str.isdigit()
IsDigit(t) == t # <<>> /\ \A i \in 1..Len(t) : t[i] \in Digits

\* the value of the digits of t, most significant first
RECURSIVE DigitsValue(_)
DigitsValue(t) ==
    IF t = <<>> THEN 0
    ELSE 10 * DigitsValue(SubSeq(t, 1, Len(t) - 1))
           + (CHOOSE d \in 0..9 : DigitTexts[d + 1] = t[Len(t)])

\* float(s) for a stripped text s.  The texts of the cells here hold no
\* decimal point, exponent, underscore, "inf" or "nan": float(s) is then
\* defined on the numerals with an optional sign, and raises ValueError on
\* every other text.  None stands for the exception.
float(s) ==
    LET digits == IF s # <<>> /\ Head(s) \in {"+", "-"} THEN Tail(s) ELSE s
    IN  IF ~IsDigit(digits) THEN None
        ELSE IF Head(s) = "-" THEN Num(-DigitsValue(digits)) ELSE Num(DigitsValue(digits))

\* what _parse_number and _to_float do to str(v).strip(), given the texts
\* they take for zero and the characters they drop
NumberOfText(s, zeros, dropped) ==
    LET neg == s # <<>> /\ Head(s) = "(" /\ s[Len(s)] = ")"
        inner == IF neg THEN SubSeq(s, 2, Len(s) - 1) ELSE s
        body == Strip(Without(inner, dropped))
    IN  IF s = <<>> \/ s \in zeros \/ body = <<>> THEN Num(0)
        ELSE IF float(body) = None THEN None
        ELSE IF neg THEN Num(-float(body)[1]) ELSE float(body)

\* _to_float(v): Num of the value, None when float(s) raises ValueError
to_float(v) ==
    IF v = None THEN Num(0)
    ELSE IF IsNumber(v) THEN v
    ELSE NumberOfText(Strip(v[2]),
                      {<<"-">>, <<"<em-dash>">>, <<"<en-dash>">>, <<"N", "/", "A">>,
                       <<"#", "N", "/", "A">>},
                      {",", "$", "<rupee>", "%"})

T_Income_Statement ==
    <<"I", "n", "c", "o", "m", "e", " ", "S", "t", "a", "t", "e", "m", "e", "n", "t">>

T_DCF_Valuation == <<"D", "C", "F", " ", "V", "a", "l", "u", "a", "t", "i", "o", "n">>

T_Cash_Flow_Sensitivity ==
    <<"C", "a", "s", "h", " ", "F", "l", "o", "w", " ", "S", "e", "n", "s", "i", "t", "i", "v", "i", "t", "y">>

T_FY2023 == <<"F", "Y", "2", "0", "2", "3">>

T_FY2024E == <<"F", "Y", "2", "0", "2", "4", "E">>

T_n_a == <<"n", "/", "a">>

T_AcmeCo_Model ==
    <<"A", "c", "m", "e", "C", "o", " ", "<em-dash>", " ", "M", "o", "d", "e", "l">>

T_Beta_Plan == <<"B", "e", "t", "a", " ", "<em-dash>", " ", "P", "l", "a", "n">>

T_Notes == <<"N", "o", "t", "e", "s">>

T_COGS == <<"C", "O", "G", "S">>

\* the most rows a generated sheet has
MaxSheetRows == 5

\* the number in value column j of row i of a generated sheet
SheetCell(i, j) == 10 * (i + 1) + j

\* the rows of scenario S5
S5_Sheet ==
    << <<Str(T_AcmeCo_Model)>>,
       <<None>>,
       <<Str(T_Income_Statement)>>,
       <<None, Str(T_FY2023), Str(T_FY2024E)>>,
       <<Str(T_Revenue), Num(1000), Num(1200)>>,
       <<Str(T_COGS), Num(600), Num(700)>>,
       <<Str(T_DCF_Valuation)>>,
       <<Str(T_Revenue), Num(2000), Num(2500)>> >>

\* the texts of the cells of the sheets here, str(v) of their numbers included
SheetTexts ==
    {T_Income_Statement, T_DCF_Valuation, T_Cash_Flow_Sensitivity, T_FY2023, T_FY2024E,
     T_Revenue, T_n_a, T_AcmeCo_Model, T_Beta_Plan, T_COGS, T_Notes}
      \cup {NatText(SheetCell(i, j)) : i \in 0..Max(MaxSheetRows - 1, 6), j \in 1..2}
      \cup {StrOf(S5_Sheet[i][j]) : i \in {5, 6, 8}, j \in 2..3}

\* _classify_row_text, were the section patterns tried before the stop patterns
ClassOfTextSectionFirst(text) ==
    LET t == LowerStr(Strip(text))
        hit(k) == \E n \in 1..Len(SECTION_PATTERNS[k][2]) :
                     re_search(SECTION_PATTERNS[k][2][n], t)
    IN  IF Len(t) < 3 THEN ""
        ELSE IF \E k \in 1..Len(SECTION_PATTERNS) : hit(k)
        THEN SECTION_PATTERNS[CHOOSE k \in 1..Len(SECTION_PATTERNS) :
                                  hit(k) /\ \A n \in 1..(k - 1) : ~hit(n)][1]
        ELSE IF \E k \in 1..Len(STOP_PATTERNS) : re_search(STOP_PATTERNS[k], t) THEN "stop"
        ELSE ""

\* _classify_row_text(text): 'stop', a statement type, or "" for None
ClassOfText(text) ==
    LET t == LowerStr(Strip(text))
        hit(k) == \E n \in 1..Len(SECTION_PATTERNS[k][2]) :
                     re_search(SECTION_PATTERNS[k][2][n], t)
    IN  IF Len(t) < 3 THEN ""
        ELSE IF \E k \in 1..Len(STOP_PATTERNS) : re_search(STOP_PATTERNS[k], t) THEN "stop"
        ELSE IF \E k \in 1..Len(SECTION_PATTERNS) : hit(k)
        THEN SECTION_PATTERNS[CHOOSE k \in 1..Len(SECTION_PATTERNS) :
                                  hit(k) /\ \A n \in 1..(k - 1) : ~hit(n)][1]
        ELSE ""

\* _should_skip_row(text)
SkipText(text) ==
    \E k \in 1..Len(SKIP_ROW_PATTERNS) : re_match(SKIP_ROW_PATTERNS[k], LowerStr(Strip(text)))

\* _is_period(text); PERIOD_RE is compiled with IGNORECASE
PeriodText(text) == re_match(PERIOD_RE, LowerStr(Strip(text)))

\* the three functions tabulated over the texts of the sheets: each text is
\* matched against the patterns once
ClassTable == [text \in SheetTexts |-> ClassOfText(text)]

SkipTable == [text \in SheetTexts |-> SkipText(text)]

PeriodTable == [text \in SheetTexts |-> PeriodText(text)]

classify_row_text(text) ==
    IF text \in SheetTexts THEN ClassTable[text] ELSE ClassOfText(text)

should_skip_row(text) == IF text \in SheetTexts THEN SkipTable[text] ELSE SkipText(text)

is_period(text) == IF text \in SheetTexts THEN PeriodTable[text] ELSE PeriodText(text)

(***************************************************************************)
(* parsers.py, stacked_parser.py: resolving rows into statements           *)
(***************************************************************************)
\* the attribute names the labels and configurations here can reach, with
\* their text
AttrTexts ==
    << <<"revenue", T_revenue>>,
       <<"cogs", T_cogs>>,
       <<"capex", T_capex>>,
       <<"dividends_paid", T_dividends_paid>>,
       <<"revenue_other", T_revenue_other>>,
       <<"f1", T_f1>>,
       <<"f2", T_f2>> >>

\* the attribute a string names ("" if it is none of AttrTexts)
AttrName(text) ==
    IF \E i \in 1..Len(AttrTexts) : AttrTexts[i][2] = text
    THEN AttrTexts[CHOOSE i \in 1..Len(AttrTexts) : AttrTexts[i][2] = text][1]
    ELSE ""

\* STMT_CLASS_MAP[stmt_type](period=p), without the period attribute
StatementOf(stmt_type) ==
    CASE stmt_type = "income_statement" -> IncomeStatement
      [] stmt_type = "balance_sheet" -> BalanceSheet
      [] stmt_type = "cash_flow" -> CashFlowStatement

\* the Optional[float] attributes of the statements
OptionalAttrs ==
    {"ebitda", "effective_tax_rate", "shares_outstanding_basic",
     "shares_outstanding_diluted", "eps_basic", "eps_diluted", "free_cash_flow"}

\* hasattr(stmt, name) for the name a text spells
HasAttr(stmt, text) == AttrName(text) \in DOMAIN stmt

\* setattr(stmt, name, val), val a number; a name the class does not declare
\* becomes a new attribute of the instance
SetAttr(stmt, name, val) ==
    [k \in DOMAIN stmt \cup {name} |->
        IF k = name THEN (IF name \in OptionalAttrs THEN <<val>> ELSE val) ELSE stmt[k]]

\* {k: v for k, v in vars(stmt).items() if k != 'period' and isinstance(v, (int, float))}
NumericData(stmt) ==
    LET keys == {k \in DOMAIN stmt : k \notin OptionalAttrs \/ stmt[k] # None}
    IN  [k \in keys |-> IF k \in OptionalAttrs THEN stmt[k][1] ELSE stmt[k]]

\* for k, v in normalized.items(): setattr(stmt, k, v)
SetAll(stmt, normalized) ==
    [k \in DOMAIN stmt |->
        IF k \in DOMAIN normalized
        THEN (IF k \in OptionalAttrs THEN <<normalized[k]>> ELSE normalized[k])
        ELSE stmt[k]]

\* the sign normalization block that ends _parse_tabular_data and each section
\* of parse_stacked_sheet
NormalizeStatements(statements, stmt_type, config) ==
    IF config.settings.auto_sign_normalization
    THEN [i \in 1..Len(statements) |->
             <<statements[i][1],
               SetAll(statements[i][2],
                      normalize_signs(NumericData(statements[i][2]), stmt_type, config))>>]
    ELSE statements

\* _parse_number(raw_val): Num of the value, None when float(s) raises ValueError
parse_number(raw_val) ==
    IF raw_val = None THEN Num(0)
    ELSE IF IsNumber(raw_val) THEN raw_val
    ELSE NumberOfText(Strip(raw_val[2]),
                      {<<"-">>, <<"<em-dash>">>, <<"<en-dash>">>, <<"N", "/", "A">>,
                       <<"n", "/", "a">>, <<"#", "N", "/", "A">>},
                      {"$", ",", "%"})

\* float(value) if value is not None else 0.0, for a value that is no string
float_or_zero(value) == IF value = None THEN 0 ELSE value[1]

\* statements = {p: stmt_class(period=p) for p in periods}
EmptyStatements(periods, stmt_type) ==
    [i \in 1..Len(periods) |-> <<periods[i], StatementOf(stmt_type)>>]

\* the periods of a header row (column 0 left out): the non-empty headers;
\* an empty header cell is 0
RECURSIVE HeaderPeriods(_)
HeaderPeriods(headers) ==
    IF headers = <<>> THEN <<>>
    ELSE (IF Head(headers) # 0 THEN <<Head(headers)>> ELSE <<>>)
            \o HeaderPeriods(Tail(headers))

\* for j, period in enumerate(periods): val = _parse_number(row[j + 1]);
\* if hasattr(...): setattr(...)  (row[j + 1] past the end of the row raises
\* IndexError, a text that is no number ValueError: both are passed over);
\* attr is "" for a name that is no attribute
RECURSIVE AssignRow(_, _, _, _, _)
AssignRow(statements, periods, cells, attr, j) ==
    IF j > Len(periods) THEN statements
    ELSE AssignRow(IF j <= Len(cells) /\ parse_number(cells[j]) # None
                        /\ attr \in DOMAIN DictGet(statements, periods[j])
                   THEN DictSet(statements, periods[j],
                                SetAttr(DictGet(statements, periods[j]), attr,
                                        parse_number(cells[j])[1]))
                   ELSE statements,
                   periods, cells, attr, j + 1)

\* a row is [label |-> text, cells |-> the cells after column 0]
RowIsBlank(row) == row.label = <<>> \/ Strip(row.label) = <<>>

RECURSIVE InputFieldNames(_)
InputFieldNames(rows) ==
    IF rows = <<>> THEN <<>>
    ELSE (IF RowIsBlank(Head(rows)) THEN <<>> ELSE <<Strip(Head(rows).label)>>)
            \o InputFieldNames(Tail(rows))

\* the second loop over rows[1:] of _parse_tabular_data
RECURSIVE TabularRows(_, _, _, _)
TabularRows(statements, periods, rows, field_mapping) ==
    IF rows = <<>> THEN statements
    ELSE LET row == Head(rows)
             internal_field == DictGetOr(field_mapping, Strip(row.label), <<>>)
         IN  TabularRows(IF RowIsBlank(row) \/ internal_field = <<>>
                         THEN statements
                         ELSE AssignRow(statements, periods, row.cells,
                                        AttrName(internal_field), 1),
                         periods, Tail(rows), field_mapping)

TabularBuild(periods, rows, stmt_type, config, mapped) ==
    [statements |->
        NormalizeStatements(
            TabularRows(EmptyStatements(periods, stmt_type), periods, rows,
                        mapped.mapping),
            stmt_type, config),
     diag |-> mapped.diag]

\* _parse_tabular_data(rows, stmt_type, mapper, config) for rows = [headers] + rows
parse_tabular_data(headers, rows, stmt_type, config) ==
    TabularBuild(HeaderPeriods(headers), rows, stmt_type, config,
                 map_fields(config, InputFieldNames(rows)))

\* parse_json: the loop `for input_name, value in items.items()` on one period;
\* items is a dict input name -> cell
RECURSIVE JsonItems(_, _, _)
JsonItems(stmt, items, field_mapping) ==
    IF items = <<>> THEN stmt
    ELSE LET input_name == Head(items)[1]
             val == float_or_zero(Head(items)[2])
         IN  JsonItems(IF HasAttr(stmt, input_name)
                       THEN SetAttr(stmt, AttrName(input_name), val)
                       ELSE IF HasKey(field_mapping, input_name)
                       THEN SetAttr(stmt, AttrName(DictGet(field_mapping, input_name)), val)
                       ELSE stmt,
                       Tail(items), field_mapping)

JsonBuild(stmt_data, stmt_type, mapped) ==
    [statements |-> [i \in 1..Len(stmt_data) |->
                        <<stmt_data[i][1],
                          JsonItems(StatementOf(stmt_type), stmt_data[i][2],
                                    mapped.mapping)>>],
     diag |-> mapped.diag]

\* parse_json on one statement: stmt_data is a dict period -> items
parse_json_statement(stmt_data, stmt_type, config) ==
    JsonBuild(stmt_data, stmt_type,
              map_fields(config,
                         IF stmt_data = <<>> THEN <<>>
                         ELSE [i \in 1..Len(stmt_data[1][2]) |-> stmt_data[1][2][i][1]]))

\* _to_float raises ValueError on a cell of the period columns of rows
ValueErrorIn(periods, rows) ==
    \E i \in 1..Len(rows), j \in 1..Len(periods) :
        j <= Len(rows[i].cells) /\ to_float(rows[i].cells[j]) = None

\* parse_stacked_sheet, the end of the loop over a section's rows: the label is
\* appended to input_field_names and field_values[label] is set afresh (for
\* rows on which _to_float does not raise)
RECURSIVE StackedFieldValues(_, _, _)
StackedFieldValues(field_values, periods, rows) ==
    IF rows = <<>> THEN field_values
    ELSE StackedFieldValues(
             DictSet(field_values, Strip(Head(rows).label),
                     [j \in 1..Len(periods) |->
                         <<periods[j], IF j <= Len(Head(rows).cells)
                                       THEN to_float(Head(rows).cells[j])[1] ELSE 0>>]),
             periods, Tail(rows))

\* for period in periods: val = field_values.get(input_name, {}).get(period, 0.0);
\* if hasattr(...): setattr(statements[period], internal_field, val)
RECURSIVE StackedPeriods(_, _, _, _, _)
StackedPeriods(statements, periods, values, attr, j) ==
    IF j > Len(periods) THEN statements
    ELSE StackedPeriods(IF attr \in DOMAIN DictGet(statements, periods[j])
                        THEN DictSet(statements, periods[j],
                                     SetAttr(DictGet(statements, periods[j]), attr,
                                             DictGetOr(values, periods[j], 0)))
                        ELSE statements,
                        periods, values, attr, j + 1)

\* for input_name, internal_field in field_mapping.items(): ...
RECURSIVE StackedApply(_, _, _, _)
StackedApply(statements, periods, field_values, field_mapping) ==
    IF field_mapping = <<>> THEN statements
    ELSE StackedApply(
             StackedPeriods(statements, periods,
                            DictGetOr(field_values, Head(field_mapping)[1], <<>>),
                            AttrName(Head(field_mapping)[2]), 1),
             periods, field_values, Tail(field_mapping))

StackedBuild(periods, field_values, stmt_type, config, mapped) ==
    [statements |->
        NormalizeStatements(
            StackedApply(EmptyStatements(periods, stmt_type), periods, field_values,
                         mapped.mapping),
            stmt_type, config),
     diag |-> mapped.diag]

\* one section of parse_stacked_sheet whose period columns and line-item rows
\* have been found
parse_stacked_section(periods, rows, stmt_type, config) ==
    StackedBuild(periods, StackedFieldValues(<<>>, periods, rows), stmt_type, config,
                 map_fields(config, [i \in 1..Len(rows) |-> Strip(rows[i].label)]))

T_balance_check == <<"b", "a", "l", "a", "n", "c", "e", " ", "c", "h", "e", "c", "k">>

T_eps_paren == <<"e", "p", "s", " ", "(">>

T_Unknown == <<"U", "n", "k", "n", "o", "w", "n">>

(***************************************************************************)
(* stacked_parser.py: parse_stacked_sheet                                  *)
(***************************************************************************)
Min(a, b) == IF a <= b THEN a ELSE b

\* the smallest element of a non-empty set of integers
Least(S) == CHOOSE i \in S : \A j \in S : i <= j

\* Phase 1, the inner loop over row[0..3]: the class of the first cell that is
\* a string and classifies, "" when the loop ends without a break
RowClass(row) ==
    LET hits == {c \in 1..Min(4, Len(row)) :
                    IsStr(row[c]) /\ classify_row_text(row[c][2]) # ""}
    IN  IF hits = {} THEN "" ELSE classify_row_text(row[Least(hits)][2])

\* current['end_idx'] = end_idx; sections.append(current), if current
Closed(sections, current, end_idx) ==
    IF current = None THEN sections
    ELSE Append(sections, [current[1] EXCEPT !.end_idx = Num(end_idx)])

\* Phase 1 from row i on: the sections found, given those closed so far and
\* the open one (None, or the one section in a tuple)
RECURSIVE FindSections(_, _, _, _)
FindSections(all_rows, i, sections, current) ==
    IF i >= Len(all_rows) THEN Closed(sections, current, Len(all_rows) - 1)
    ELSE LET cls == RowClass(all_rows[i + 1])
         IN  IF cls = "stop"
             THEN FindSections(all_rows, i + 1, Closed(sections, current, i - 1), None)
             ELSE IF cls # ""
             THEN FindSections(all_rows, i + 1, Closed(sections, current, i - 1),
                               <<[stmt_type |-> cls, header_idx |-> i, end_idx |-> None]>>)
             ELSE FindSections(all_rows, i + 1, sections, current)

\* sum(1 for v in row if v is not None and _is_period(str(v)))
period_count(row) ==
    Cardinality({j \in 1..Len(row) : row[j] # None /\ is_period(StrOf(row[j]))})

\* _detect_period_row(rows, start, end): Num of the row index, or None
detect_period_row(rows, start, end) ==
    LET hits == {i \in start..(Min(end, Len(rows)) - 1) : period_count(rows[i + 1]) >= 2}
    IN  IF hits = {} THEN None ELSE Num(Least(hits))

\* _extract_period_columns(row) from column j on: the dict period label -> column
RECURSIVE extract_period_columns(_, _, _)
extract_period_columns(row, j, result) ==
    IF j >= Len(row) THEN result
    ELSE extract_period_columns(
             row, j + 1,
             IF row[j + 1] # None /\ is_period(Strip(StrOf(row[j + 1])))
                  /\ ~HasKey(result, Strip(StrOf(row[j + 1])))
             THEN Append(result, <<Strip(StrOf(row[j + 1])), j>>)
             ELSE result)

\* v is a string, s = v.strip(), len(s) > n and
\* not s.replace('.', '').replace('-', '').replace(',', '').isdigit()
IsLabelText(v, n) ==
    /\ IsStr(v)
    /\ Len(Strip(v[2])) > n
    /\ ~IsDigit(Without(Strip(v[2]), {".", "-", ","}))

\* _detect_label_column(rows, start, end, period_cols): the column with the
\* highest score, the one scored first among equals, 0 if no column scores
detect_label_column(rows, start, end, period_cols) ==
    LET R == start..(Min(end, Len(rows)) - 1)
        hits(j) == {i \in R : j < Len(rows[i + 1]) /\ IsLabelText(rows[i + 1][j + 1], 2)}
        cols == {j \in UNION {0..(Len(rows[i + 1]) - 1) : i \in R} \ period_cols :
                    hits(j) # {}}
        best == {j \in cols : \A k \in cols : Cardinality(hits(k)) <= Cardinality(hits(j))}
    IN  IF cols = {} THEN 0
        ELSE CHOOSE j \in best :
                 \A k \in best : \/ Least(hits(j)) < Least(hits(k))
                                 \/ Least(hits(j)) = Least(hits(k)) /\ j <= k

\* the label of a row: the first of the columns label_col, label_col + 1 and
\* label_col - 1 that holds one; <<>> when none does
RowLabel(row, label_col, period_col_set) ==
    LET try_cols == <<label_col, label_col + 1, label_col - 1>>
        hits == {k \in 1..3 : /\ 0 <= try_cols[k]
                              /\ try_cols[k] < Len(row)
                              /\ try_cols[k] \notin period_col_set
                              /\ IsLabelText(row[try_cols[k] + 1], 1)}
    IN  IF hits = {} THEN <<>> ELSE Strip(row[try_cols[Least(hits)] + 1][2])

\* the cells of a row under the period columns, None past the end of the row
PeriodCells(row, period_col_map) ==
    [k \in 1..Len(period_col_map) |->
        IF period_col_map[k][2] < Len(row) THEN row[period_col_map[k][2] + 1] ELSE None]

\* the loop `for ri in range(data_start, end + 1)` from row ri on: the line
\* items gathered, each [label, cells under the period columns]
RECURSIVE SectionRows(_, _, _, _, _, _)
SectionRows(all_rows, ri, end, label_col, period_col_map, items) ==
    IF ri > end \/ ri >= Len(all_rows) THEN items
    ELSE LET label == RowLabel(all_rows[ri + 1], label_col,
                               {period_col_map[k][2] : k \in 1..Len(period_col_map)})
             label_lower == Strip(LowerStr(label))
         IN  IF label = <<>>
             THEN SectionRows(all_rows, ri + 1, end, label_col, period_col_map, items)
             ELSE IF classify_row_text(label) # "" THEN items
             ELSE IF \/ should_skip_row(label)
                     \/ Contains(label_lower, T_balance_check)
                     \/ Contains(label_lower, T_eps_paren)
             THEN SectionRows(all_rows, ri + 1, end, label_col, period_col_map, items)
             ELSE SectionRows(all_rows, ri + 1, end, label_col, period_col_map,
                              Append(items,
                                     [label |-> label,
                                      cells |-> PeriodCells(all_rows[ri + 1],
                                                            period_col_map)]))

\* end = sec['end_idx'] or len(all_rows) - 1
SectionEnd(all_rows, sec) ==
    IF sec.end_idx = None \/ sec.end_idx = Num(0) THEN Len(all_rows) - 1
    ELSE sec.end_idx[1]

\* the line items of a section whose period row is period_row_idx
SectionItems(all_rows, end, period_row_idx, period_col_map) ==
    SectionRows(all_rows, period_row_idx + 1, end,
                detect_label_column(all_rows, period_row_idx + 1, end + 1,
                                    {period_col_map[k][2] : k \in 1..Len(period_col_map)}),
                period_col_map, <<>>)

\* the mappings of stmt_type in the loaded configuration: config declares the
\* fields of one statement type, every other type has none
ConfigOf(config, stmt_type) ==
    IF config.stmt_type = stmt_type THEN config
    ELSE [stmt_type |-> stmt_type, settings |-> config.settings,
          alias_index |-> <<>>, reverse_index |-> <<>>]

\* all_periods_set.update(periods); all_diagnostics.append(diagnostics);
\* setattr(model, STMT_ATTR[stmt_type], statements)
WithSection(result, stmt_type, periods, built) ==
    [result EXCEPT
        !.all_periods_set = @ \cup {periods[k] : k \in 1..Len(periods)},
        !.income_statements =
            IF stmt_type = "income_statement" THEN built.statements ELSE @,
        !.balance_sheets = IF stmt_type = "balance_sheet" THEN built.statements ELSE @,
        !.cash_flows = IF stmt_type = "cash_flow" THEN built.statements ELSE @,
        !.diagnostics = Append(@, built.diag)]

\* one turn of `for sec in sections` for a section whose period row was found
SectionParsed(result, stmt_type, periods, items, config) ==
    IF ValueErrorIn(periods, items) THEN [result EXCEPT !.raised = TRUE]
    ELSE WithSection(result, stmt_type, periods,
                     parse_stacked_section(periods, items, stmt_type,
                                           ConfigOf(config, stmt_type)))

\* Phase 2: `for sec in sections` from section n on; period_rows and
\* label_cols keep the period_row_idx and the label_col of each turn of the
\* loop (None for a section that is skipped)
RECURSIVE ParseSections(_, _, _, _, _)
ParseSections(all_rows, sections, n, config, result) ==
    IF n > Len(sections) \/ result.raised THEN result
    ELSE LET end == SectionEnd(all_rows, sections[n])
             period_row_idx == detect_period_row(all_rows, sections[n].header_idx,
                                                 Min(sections[n].header_idx + 5, end + 1))
             period_col_map ==
                 extract_period_columns(all_rows[period_row_idx[1] + 1], 0, <<>>)
             label_col ==
                 detect_label_column(all_rows, period_row_idx[1] + 1, end + 1,
                                     {period_col_map[k][2] : k \in 1..Len(period_col_map)})
             searched == [result EXCEPT
                             !.period_rows = Append(@, period_row_idx),
                             !.label_cols =
                                 Append(@, IF period_row_idx = None \/ period_col_map = <<>>
                                           THEN None ELSE Num(label_col))]
         IN  IF period_row_idx = None
             THEN ParseSections(all_rows, sections, n + 1, config, searched)
             ELSE IF period_col_map = <<>>
             THEN ParseSections(all_rows, sections, n + 1, config, searched)
             ELSE ParseSections(
                      all_rows, sections, n + 1, config,
                      SectionParsed(searched, sections[n].stmt_type,
                                    [k \in 1..Len(period_col_map) |-> period_col_map[k][1]],
                                    SectionItems(all_rows, end, period_row_idx[1],
                                                 period_col_map),
                                    config))

\* model.company_name after a row of all_rows[:5]: the text before the first
\* em dash of the first cell that is a string holding one
CompanyName(row, name) ==
    LET hits == {c \in 1..Len(row) : IsStr(row[c]) /\ Contains(row[c][2], <<"<em-dash>">>)}
        cell == row[Least(hits)][2]
        dash == Least({k \in 1..Len(cell) : cell[k] = "<em-dash>"})
    IN  IF hits = {} THEN name ELSE Strip(SubSeq(cell, 1, dash - 1))

\* for row in all_rows[:5]: ...
RECURSIVE company_name(_, _, _)
company_name(all_rows, i, name) ==
    IF i >= Min(5, Len(all_rows)) THEN name
    ELSE company_name(all_rows, i + 1, CompanyName(all_rows[i + 1], name))

\* the characters of period labels in the order of their code points
CodeOrder == <<"\t", "\n", "\r", " ", "-">> \o DigitTexts \o UpperCase \o LowerCase

Code(c) == CHOOSE i \in 1..Len(CodeOrder) : CodeOrder[i] = c

\* s < t for two strings
RECURSIVE TextLess(_, _)
TextLess(s, t) ==
    IF t = <<>> THEN FALSE
    ELSE IF s = <<>> THEN TRUE
    ELSE IF Head(s) = Head(t) THEN TextLess(Tail(s), Tail(t))
    ELSE Code(Head(s)) < Code(Head(t))

\* sorted(texts) for a set of strings
RECURSIVE sorted(_)
sorted(texts) ==
    IF texts = {} THEN <<>>
    ELSE LET first == CHOOSE s \in texts : \A t \in texts \ {s} : TextLess(s, t)
         IN  <<first>> \o sorted(texts \ {first})

\* re.search(r'[EePp]$', p)
IsProjected(p) == p # <<>> /\ p[Len(p)] \in {"E", "e", "P", "p"}

\* [p for p in periods if keep(p)], keep being IsProjected or its negation
RECURSIVE PeriodsWhere(_, _)
PeriodsWhere(periods, projected) ==
    IF periods = <<>> THEN <<>>
    ELSE (IF IsProjected(Head(periods)) = projected THEN <<Head(periods)>> ELSE <<>>)
            \o PeriodsWhere(Tail(periods), projected)

\* the end of parse_stacked_sheet: model.periods = sorted(all_periods_set) and
\* its two parts; a ValueError that left the loop leaves the call
Finish(result) ==
    IF result.raised
    THEN [raised |-> TRUE, sections |-> result.sections,
          period_rows |-> result.period_rows, label_cols |-> result.label_cols]
    ELSE [company_name |-> result.company_name,
          raised |-> FALSE,
          sections |-> result.sections,
          period_rows |-> result.period_rows,
          label_cols |-> result.label_cols,
          income_statements |-> result.income_statements,
          balance_sheets |-> result.balance_sheets,
          cash_flows |-> result.cash_flows,
          diagnostics |-> result.diagnostics,
          periods |-> sorted(result.all_periods_set),
          historical_periods |-> PeriodsWhere(sorted(result.all_periods_set), FALSE),
          projected_periods |-> PeriodsWhere(sorted(result.all_periods_set), TRUE)]

\* the model and diagnostics parse_stacked_sheet returns for the rows of the
\* sheet, with the sections Phase 1 found; raised when a ValueError leaves it
parse_stacked_sheet(all_rows, config) ==
    Finish(ParseSections(all_rows, FindSections(all_rows, 0, <<>>, None), 1, config,
                         [company_name |-> company_name(all_rows, 0, T_Unknown),
                          raised |-> FALSE,
                          sections |-> FindSections(all_rows, 0, <<>>, None),
                          period_rows |-> <<>>, label_cols |-> <<>>,
                          income_statements |-> <<>>, balance_sheets |-> <<>>,
                          cash_flows |-> <<>>, diagnostics |-> <<>>,
                          all_periods_set |-> {}]))

(***************************************************************************)
(* The models the engine is run on                                         *)
(***************************************************************************)
\* S1, the identity model: one period, every rule satisfied exactly
S1_IS ==
    [IncomeStatement EXCEPT
        !.revenue = 1000, !.cogs = 600, !.gross_profit = 400, !.sga = 100, !.rd = 50,
        !.depreciation = 30, !.amortization = 10, !.other_opex = 10,
        !.total_opex = 200, !.ebit = 200, !.interest_expense = 20, !.ebt = 180,
        !.tax_expense = 36, !.net_income = 144]

S1_BS ==
    [BalanceSheet EXCEPT
        !.cash = 160, !.accounts_receivable = 200, !.inventory = 140,
        !.total_current_assets = 500,
        !.ppe_gross = 1200, !.accumulated_depreciation = 300, !.ppe_net = 900,
        !.goodwill = 100, !.total_non_current_assets = 1000, !.total_assets = 1500,
        !.accounts_payable = 100, !.accrued_liabilities = 50, !.short_term_debt = 50,
        !.total_current_liabilities = 200,
        !.long_term_debt = 300, !.total_non_current_liabilities = 300,
        !.total_liabilities = 500,
        !.common_stock = 100, !.additional_paid_in_capital = 330,
        !.retained_earnings = 570, !.total_equity = 1000,
        !.total_liabilities_and_equity = 1500]

S1_CF ==
    [CashFlowStatement EXCEPT
        !.net_income = 144, !.depreciation_amortization = 40, !.other_operating = 16,
        !.cash_from_operations = 200,
        !.capex = -80, !.cash_from_investing = -80,
        !.debt_repayment = -30, !.dividends_paid = -30, !.cash_from_financing = -60,
        !.net_change_in_cash = 60, !.beginning_cash = 100, !.ending_cash = 160]

OnePeriod(ist, bs, cf) ==
    [FinancialModel EXCEPT
        !.periods = <<1>>, !.historical_periods = <<1>>,
        !.income_statements = << <<1, ist>> >>,
        !.balance_sheets = << <<1, bs>> >>,
        !.cash_flows = << <<1, cf>> >>]

\* S1 with total_liabilities_and_equity off by d (S2 is d = 10)
BrokenBS(d) ==
    OnePeriod(S1_IS, [S1_BS EXCEPT !.total_liabilities_and_equity = 1500 + d], S1_CF)

S1Model == BrokenBS(0)

S2Model == BrokenBS(10)

\* S3: retained-earnings rollforward over periods 1, 2
S3Model(re) ==
    [FinancialModel EXCEPT
        !.periods = <<1, 2>>,
        !.balance_sheets = << <<1, [BalanceSheet EXCEPT !.retained_earnings = 500]>>,
                              <<2, [BalanceSheet EXCEPT !.retained_earnings = re]>> >>,
        !.income_statements = << <<2, [IncomeStatement EXCEPT !.net_income = 100]>> >>,
        !.cash_flows = << <<2, [CashFlowStatement EXCEPT !.dividends_paid = -30]>> >>]

\* S1 with the cash-flow D&A off by 5 (other_operating absorbs it): a warning only
DAMismatchModel ==
    OnePeriod(S1_IS, S1_BS,
              [S1_CF EXCEPT !.depreciation_amortization = 45, !.other_operating = 11])

\* S1 with no D&A on the cash-flow statement (other_operating absorbs it)
OneSidedDAModel ==
    OnePeriod(S1_IS, S1_BS,
              [S1_CF EXCEPT !.depreciation_amortization = 0, !.other_operating = 56])

\* S1 with gross_profit overstated: errors, nothing critical
GrossProfitModel == OnePeriod([S1_IS EXCEPT !.gross_profit = 420], S1_BS, S1_CF)

\* S1 with a negative inventory of 1 (other_current_assets absorbs it)
NegativeInventoryModel ==
    OnePeriod(S1_IS, [S1_BS EXCEPT !.inventory = -1, !.other_current_assets = 141], S1_CF)

\* S1 in each of three periods, two historical and one projected
ThreePeriodModel ==
    [FinancialModel EXCEPT
        !.periods = <<1, 2, 3>>, !.historical_periods = <<1, 2>>,
        !.projected_periods = <<3>>,
        !.income_statements = << <<1, S1_IS>>, <<2, S1_IS>>, <<3, S1_IS>> >>,
        !.balance_sheets = << <<1, S1_BS>>, <<2, S1_BS>>, <<3, S1_BS>> >>,
        !.cash_flows = << <<1, S1_CF>>, <<2, S1_CF>>, <<3, S1_CF>> >>]

BurnCF == [CashFlowStatement EXCEPT !.cash_from_operations = -10, !.capex = -5,
                                    !.cash_from_investing = -5,
                                    !.net_change_in_cash = -15,
                                    !.beginning_cash = 15]

\* cash flows only, negative free cash flow in every period; no periods list, the
\* statement map filled out of order
BurnModel ==
    [FinancialModel EXCEPT
        !.cash_flows = << <<3, BurnCF>>, <<1, BurnCF>>, <<2, BurnCF>> >>]

\* as BurnModel with the periods listed and no cash flow for period 2
GapModel ==
    [FinancialModel EXCEPT
        !.periods = <<1, 2, 3>>,
        !.cash_flows = << <<1, BurnCF>>, <<3, BurnCF>> >>,
        !.balance_sheets = << <<2, S1_BS>> >>]

\* four periods, negative free cash flow in 1, 3 and 4, no cash flow for 2
GapStreakModel ==
    [FinancialModel EXCEPT
        !.periods = <<1, 2, 3, 4>>,
        !.cash_flows = << <<1, BurnCF>>, <<3, BurnCF>>, <<4, BurnCF>> >>]

\* four periods, negative free cash flow in all but period 3
ResetModel ==
    [FinancialModel EXCEPT
        !.periods = <<1, 2, 3, 4>>,
        !.cash_flows = << <<1, BurnCF>>, <<2, BurnCF>>, <<3, S1_CF>>, <<4, BurnCF>> >>]

LEDeltas == {0, 1, 10, -10}

RetainedEarnings == {560, 570, 580, 590}

\* two periods that differ in every statement, and no periods list
UnlistedModel ==
    [FinancialModel EXCEPT
        !.income_statements =
            << <<2, [S1_IS EXCEPT !.gross_profit = 410]>>, <<1, S1_IS>> >>,
        !.balance_sheets = << <<1, S1_BS>>, <<2, [S1_BS EXCEPT !.total_assets = 1510]>> >>,
        !.cash_flows = << <<2, BurnCF>>, <<1, S1_CF>> >>]

Models ==
    {FinancialModel, DAMismatchModel, GrossProfitModel, NegativeInventoryModel,
     ThreePeriodModel, BurnModel, GapModel, UnlistedModel, OneSidedDAModel,
     GapStreakModel, ResetModel}
      \cup {BrokenBS(d) : d \in LEDeltas}
      \cup {S3Model(re) : re \in RetainedEarnings}

\* tolerance_abs in hundredths: -1.0, 0.01 (the default), 0.5 (the CLI's), 20.0
Tolerances == {-100, 1, 50, 2000}

DefaultTolerancePct == 1

\* (disabled_check_ids, enabled_categories) of the engines built
EngineOptions ==
    { <<{}, None>>, <<{"XST-002"}, None>>, <<{"RSN-005"}, None>>,
      <<{}, <<{"structural"}>> >> }

(***************************************************************************)
(* The engine as a state machine                                           *)
(***************************************************************************)
\* VerificationEngine(tolerance_abs=ta, ..., disabled_check_ids=opt[1],
\* enabled_categories=opt[2]) built for a run on m
Construct(m, ta, opt) ==
    /\ model' = m
    /\ tolerance_abs' = ta
    /\ tolerance_pct' = DefaultTolerancePct
    /\ disabled' = opt[1]
    /\ enabled_categories' = opt[2]
    /\ registry' = register_all_checks(opt[1], opt[2])
    /\ pc' = "constructed"
    /\ idx' = 0
    /\ all_results' = <<>>
    /\ check_metadata' = <<>>
    /\ report' = None

EngineInit ==
    \E m \in Models, ta \in Tolerances, opt \in EngineOptions :
        /\ model = m
        /\ tolerance_abs = ta
        /\ tolerance_pct = DefaultTolerancePct
        /\ disabled = opt[1]
        /\ enabled_categories = opt[2]
        /\ registry = register_all_checks(opt[1], opt[2])
        /\ pc = "constructed"
        /\ idx = 0
        /\ all_results = <<>>
        /\ check_metadata = <<>>
        /\ report = None
        /\ prev = None

\* run(model) is entered: all_results = [], check_metadata = []
RunEnter ==
    /\ pc = "constructed"
    /\ pc' = "running"
    /\ UNCHANGED <<model, tolerance_abs, tolerance_pct, disabled, enabled_categories,
                   registry, idx, all_results, check_metadata, report, prev>>
    /\ UNCHANGED mapperVars

\* the try branch of the loop body: check.run returned
RunCheckCompleted ==
    /\ pc = "running"
    /\ idx < Len(registry)
    /\ LET id == registry[idx + 1]
           out == CheckRun(id, model, tolerance_abs, tolerance_pct)
       IN  /\ ~out.raised
           /\ all_results' = all_results \o out.results
           /\ check_metadata' = Append(check_metadata,
                                       CompletedEntry(id, Len(out.results)))
    /\ idx' = idx + 1
    /\ UNCHANGED <<model, tolerance_abs, tolerance_pct, disabled, enabled_categories,
                   registry, pc, report, prev>>
    /\ UNCHANGED mapperVars

\* a run without the try/except: the exception of a check ends the run with
\* what was collected so far
RunCheckErrorAborts ==
    /\ pc = "running"
    /\ idx < Len(registry)
    /\ CheckRun(registry[idx + 1], model, tolerance_abs, tolerance_pct).raised
    /\ report' = <<[results |-> all_results, check_metadata |-> check_metadata]>>
    /\ pc' = "done"
    /\ UNCHANGED <<model, tolerance_abs, tolerance_pct, disabled, enabled_categories,
                   registry, idx, all_results, check_metadata, prev>>
    /\ UNCHANGED mapperVars

\* the except branch: check.run raised
RunCheckError ==
    /\ pc = "running"
    /\ idx < Len(registry)
    /\ LET id == registry[idx + 1]
           out == CheckRun(id, model, tolerance_abs, tolerance_pct)
       IN  /\ out.raised
           /\ check_metadata' = Append(check_metadata, ErrorEntry(id, out.error))
    /\ idx' = idx + 1
    /\ UNCHANGED <<model, tolerance_abs, tolerance_pct, disabled, enabled_categories,
                   registry, pc, all_results, report, prev>>
    /\ UNCHANGED mapperVars

\* return VerificationReport(model, all_results, check_metadata)
RunReturn ==
    /\ pc = "running"
    /\ idx = Len(registry)
    /\ report' = <<[results |-> all_results, check_metadata |-> check_metadata]>>
    /\ pc' = "done"
    /\ UNCHANGED <<model, tolerance_abs, tolerance_pct, disabled, enabled_categories,
                   registry, idx, all_results, check_metadata, prev>>
    /\ UNCHANGED mapperVars

\* A second engine is built for the same model, differing from the first in its
\* tolerance_abs or in its options, not both; the first engine and its report
\* are kept in prev.
NewEngine ==
    /\ pc = "done"
    /\ prev = None
    /\ \E ta \in Tolerances, opt \in EngineOptions :
          /\ (ta = tolerance_abs) # (opt = <<disabled, enabled_categories>>)
          /\ prev' = <<[model |-> model, tolerance_abs |-> tolerance_abs,
                        disabled |-> disabled,
                        enabled_categories |-> enabled_categories,
                        registry |-> registry, report |-> report[1]]>>
          /\ Construct(model, ta, opt)
    /\ UNCHANGED mapperVars

\* the dict d, and the dict with its items inserted in the opposite order
InsertionOrders(d) == {d, [i \in 1..Len(d) |-> d[Len(d) + 1 - i]]}

\* the models with the periods list and the statements of m whose three
\* statement maps were populated in another order
Reinserted(m) ==
    {[m EXCEPT !.income_statements = ist, !.balance_sheets = bs, !.cash_flows = cf] :
        ist \in InsertionOrders(m.income_statements),
        bs \in InsertionOrders(m.balance_sheets),
        cf \in InsertionOrders(m.cash_flows)} \ {m}

\* A second engine with the tolerance and the options of the first is built
\* for a model that differs from the first one's in the insertion order of
\* its statement maps; the first engine, its model and its report are kept
\* in prev.
NewModelOrder ==
    /\ pc = "done"
    /\ prev = None
    /\ \E m \in Reinserted(model) :
          /\ prev' = <<[model |-> model, tolerance_abs |-> tolerance_abs,
                        disabled |-> disabled,
                        enabled_categories |-> enabled_categories,
                        registry |-> registry, report |-> report[1]]>>
          /\ Construct(m, tolerance_abs, <<disabled, enabled_categories>>)
    /\ UNCHANGED mapperVars

EngineNext ==
    \/ RunEnter \/ RunCheckCompleted \/ RunCheckError \/ RunReturn
    \/ NewEngine \/ NewModelOrder

(***************************************************************************)
(* The field mapper and the parsers as a state machine: a configuration is *)
(* loaded, then calls are made one at a time                               *)
(***************************************************************************)
\* the most rows (labels, JSON keys) in one call
MaxRows == 2

LabelLists == UNION {[1..n -> RowLabels] : n \in 0..MaxRows}

\* the lists handed to map_fields: a label may also be blank, or a note in
\* parentheses
InputFieldLists ==
    UNION {[1..n -> RowLabels \cup {T_blank, T_net_parens}] : n \in 0..MaxRows}

\* the cell of row k in value column j
CellOf(k, j) == Num(10 * k + j)

\* the value columns of a grid
MaxColumns == 2

RowsOf(labels) ==
    [k \in 1..Len(labels) |->
        [label |-> labels[k], cells |-> [j \in 1..MaxColumns |-> CellOf(k, j)]]]

\* header rows after column 0: the periods 1, 2, or an empty header cell first
HeaderRows == {[j \in 1..MaxColumns |-> j], [j \in 1..MaxColumns |-> IF j = 1 THEN 0 ELSE j]}

\* a JSON statement: every period holds the same keys, in the same order
JsonData(labels) ==
    [p \in 1..MaxColumns |->
        <<p, [k \in 1..Len(labels) |-> <<labels[k], CellOf(k, p)>>]>>]

Distinct(labels) == \A i, j \in 1..Len(labels) : i # j => labels[i] # labels[j]

SignFields == {"capex", "dividends_paid", "net_income"}

SignValues == {-5, 0, 5}

\* cash-flow records: any of SignFields present, with any of SignValues
SignRecords == UNION {[D -> SignValues] : D \in SUBSET SignFields}

StatementTypes == {"income_statement", "cash_flow"}

Idle == [op |-> "none"]

MapperInit ==
    /\ mapping_config \in LoadedConfigs
    /\ call = Idle
    /\ ret = None

\* FieldMapper.resolve_field(label, stmt_type)
Resolve ==
    /\ call.op = "none"
    /\ \E label \in Labels :
          /\ call' = [op |-> "resolve_field", input_name |-> label]
          /\ ret' = resolve_field(mapping_config, label)
    /\ UNCHANGED <<mapping_config, engineVars>>

\* FieldMapper.map_fields(input_fields, stmt_type)
MapFields ==
    /\ call.op = "none"
    /\ \E labels \in InputFieldLists :
          /\ call' = [op |-> "map_fields", input_fields |-> labels]
          /\ ret' = map_fields(mapping_config, labels)
    /\ UNCHANGED <<mapping_config, engineVars>>

\* normalize_signs(data, statement_type, mapping_config)
NormalizeSigns ==
    /\ call.op = "none"
    /\ \E d \in SignRecords, st \in StatementTypes :
          /\ call' = [op |-> "normalize_signs", data |-> d, statement_type |-> st,
                      times |-> 1]
          /\ ret' = normalize_signs(d, st, mapping_config)
    /\ UNCHANGED <<mapping_config, engineVars>>

\* normalize_signs applied to what it returned
NormalizeSignsAgain ==
    /\ call.op = "normalize_signs"
    /\ call.times = 1
    /\ call' = [call EXCEPT !.data = ret, !.times = 2]
    /\ ret' = normalize_signs(ret, call.statement_type, mapping_config)
    /\ UNCHANGED <<mapping_config, engineVars>>

\* merge_mapping_configs(mapping_config, override)
Merge ==
    /\ call.op = "none"
    /\ \E override \in Overrides :
          /\ override.stmt_type = mapping_config.stmt_type
          /\ \E orders \in MergeOrders(mapping_config, override) :
                /\ call' = [op |-> "merge_mapping_configs", override |-> override]
                /\ ret' = merge_mapping_configs(mapping_config, override, orders)
    /\ UNCHANGED <<mapping_config, engineVars>>

\* _parse_tabular_data(rows, stmt_type, mapper, mapping_config)
ParseTabular ==
    /\ call.op = "none"
    /\ \E labels \in LabelLists, headers \in HeaderRows :
          /\ call' = [op |-> "parse_tabular", headers |-> headers, rows |-> RowsOf(labels)]
          /\ ret' = parse_tabular_data(headers, RowsOf(labels), mapping_config.stmt_type, mapping_config)
    /\ UNCHANGED <<mapping_config, engineVars>>

\* parse_json, one statement of the document
ParseJson ==
    /\ call.op = "none"
    /\ \E labels \in LabelLists :
          /\ Distinct(labels)
          /\ call' = [op |-> "parse_json", stmt_data |-> JsonData(labels)]
          /\ ret' = parse_json_statement(JsonData(labels), mapping_config.stmt_type, mapping_config)
    /\ UNCHANGED <<mapping_config, engineVars>>

\* parse_stacked_sheet, one section
ParseStacked ==
    /\ call.op = "none"
    /\ \E labels \in LabelLists :
          /\ call' = [op |-> "parse_stacked", periods |-> [j \in 1..MaxColumns |-> j],
                      rows |-> RowsOf(labels)]
          /\ ret' = parse_stacked_section([j \in 1..MaxColumns |-> j], RowsOf(labels),
                                          mapping_config.stmt_type, mapping_config)
    /\ UNCHANGED <<mapping_config, engineVars>>

\* the call returns to its caller
Return ==
    /\ call.op # "none"
    /\ call' = Idle
    /\ ret' = None
    /\ UNCHANGED <<mapping_config, engineVars>>

MapperNext ==
    \/ Resolve \/ MapFields \/ NormalizeSigns \/ NormalizeSignsAgain
    \/ ParseTabular \/ ParseJson \/ ParseStacked \/ Merge \/ Return

(***************************************************************************)
(* The stacked-sheet parser as a state machine: a sheet is parsed with the *)
(* loaded configuration, then the call returns                             *)
(***************************************************************************)
\* the fields of the income statement under their own names only
RawSheet ==
    [stmt_type |-> "income_statement", settings |-> Settings(70, TRUE),
     fields |-> << <<T_revenue, <<>> >>, <<T_cogs, <<>> >> >>]

\* a section header, a stop row, a period row, a line item, a line item with
\* a text that is no number under the first period, an empty row
SheetRowKinds == {"header", "stop", "periods", "data", "text", "blank"}

\* from this row on the stop rows of a generated sheet hold a text that matches
\* a section pattern too
StopTextRow == 4

\* row i of a generated sheet, by its kind
SheetRow(kind, i) ==
    CASE kind = "header" -> <<Str(T_Income_Statement)>>
      [] kind = "stop" -> <<Str(IF i < StopTextRow THEN T_DCF_Valuation
                                ELSE T_Cash_Flow_Sensitivity)>>
      [] kind = "periods" -> <<None, Str(T_FY2023), Str(T_FY2024E)>>
      [] kind = "data" -> <<Str(T_Revenue), Num(SheetCell(i, 1)), Num(SheetCell(i, 2))>>
      [] kind = "text" -> <<Str(T_Revenue), Str(T_n_a), Num(SheetCell(i, 2))>>
      [] kind = "blank" -> <<None>>

\* data rows of a sheet that keeps notes in column 3: a label, a note, both
\* or neither
NoteRows ==
    {<<Str(T_Revenue), Num(31), Num(32), None>>,
     <<None, Num(31), Num(32), Str(T_Notes)>>,
     <<Str(T_COGS), Num(31), Num(32), Str(T_Notes)>>,
     <<None, Num(31), Num(32), None>>}

\* a section header, its period row and two such rows
NoteSheets ==
    {<<SheetRow("header", 0), SheetRow("periods", 1), r1, r2>> : r1, r2 \in NoteRows}

\* rows above the first section: blank, a title, two titles
TitleRows ==
    {<<None>>, <<Str(T_AcmeCo_Model)>>, <<Str(T_Beta_Plan)>>,
     <<Str(T_Beta_Plan), Str(T_AcmeCo_Model)>>}

\* two such rows above a section with one line item
TitleSheets ==
    {<<r1, r2, SheetRow("header", 2), SheetRow("periods", 3), SheetRow("data", 4)>> :
        r1, r2 \in TitleRows}

\* a section whose period row is 5 rows below its header, alone and with a
\* line item
DeepSheets ==
    LET top == [i \in 1..6 |-> SheetRow(IF i = 1 THEN "header"
                                        ELSE IF i = 6 THEN "periods" ELSE "blank", i - 1)]
    IN  {top, Append(top, SheetRow("data", 6))}

\* every sheet of at most MaxSheetRows rows of these kinds, S5, the sheets with
\* notes, with titles and with a deep period row
Sheets ==
    {[i \in 1..Len(kinds) |-> SheetRow(kinds[i], i - 1)] :
        kinds \in UNION {[1..n -> SheetRowKinds] : n \in 0..MaxSheetRows}}
      \cup {S5_Sheet} \cup NoteSheets \cup TitleSheets \cup DeepSheets

SheetInit ==
    /\ mapping_config \in {load_mapping_config(RawSheet, o) : o \in AliasOrders(RawSheet)}
    /\ call = Idle
    /\ ret = None

\* parse_stacked_sheet(filepath, sheet_name, mapping_config) on a workbook whose
\* sheet holds all_rows
ParseStackedSheet ==
    /\ call.op = "none"
    /\ \E all_rows \in Sheets :
          /\ call' = [op |-> "parse_stacked_sheet", all_rows |-> all_rows]
          /\ ret' = parse_stacked_sheet(all_rows, mapping_config)
    /\ UNCHANGED <<mapping_config, engineVars>>

SheetNext == ParseStackedSheet \/ Return

\* the engine with no mapper call under way
Init ==
    /\ EngineInit
    /\ mapping_config = load_mapping_config(RawAlpha, <<<<T_alpha, T_f1>>, <<T_alpha2, T_f2>>>>)
    /\ call = Idle
    /\ ret = None

Next == EngineNext

Spec == Init /\ [][Next]_vars

\* the mapper and parsers with an engine that is built and never run
InitMapper ==
    /\ MapperInit
    /\ model = FinancialModel
    /\ tolerance_abs = 1
    /\ tolerance_pct = DefaultTolerancePct
    /\ disabled = {}
    /\ enabled_categories = None
    /\ registry = register_all_checks({}, None)
    /\ pc = "constructed"
    /\ idx = 0
    /\ all_results = <<>>
    /\ check_metadata = <<>>
    /\ report = None
    /\ prev = None

SpecMapper == InitMapper /\ [][MapperNext]_vars

\* the stacked-sheet parser with an engine that is built and never run
InitSheet ==
    /\ SheetInit
    /\ model = FinancialModel
    /\ tolerance_abs = 1
    /\ tolerance_pct = DefaultTolerancePct
    /\ disabled = {}
    /\ enabled_categories = None
    /\ registry = register_all_checks({}, None)
    /\ pc = "constructed"
    /\ idx = 0
    /\ all_results = <<>>
    /\ check_metadata = <<>>
    /\ report = None
    /\ prev = None

SpecSheet == InitSheet /\ [][SheetNext]_vars

(***************************************************************************)
(* Properties of VerificationEngine.run and of the report                  *)
(***************************************************************************)
Done == pc = "done" /\ report # None

\* the reports of two engines on the same model: this one's and the earlier one's
ThisRun ==
    [model |-> model, tolerance_abs |-> tolerance_abs, disabled |-> disabled,
     enabled_categories |-> enabled_categories, registry |-> registry,
     report |-> report[1]]

RaisedIn(rep, c) ==
    \E i \in 1..Len(rep.check_metadata) :
        rep.check_metadata[i].check_id = c /\ rep.check_metadata[i].status = "error"

WithoutCheck(meta, c) ==
    LET keep(e) == e.check_id # c
    IN  Filter(keep, meta)

\* run `with` has check c registered, and c raised; run `without` differs from it
\* only in having c disabled
OnlyDropsRaising(with, without, c) ==
    /\ with.model = without.model
    /\ with.tolerance_abs = without.tolerance_abs
    /\ with.enabled_categories = without.enabled_categories
    /\ c \notin with.disabled
    /\ without.disabled = with.disabled \cup {c}
    /\ RaisedIn(with.report, c)

SameButFor(with, without, c) ==
    /\ without.report.results = with.report.results
    /\ without.report.check_metadata = WithoutCheck(with.report.check_metadata, c)

CheckIds == {ALL_CHECKS[i] : i \in 1..Len(ALL_CHECKS)}

\* C1: run never aborts because a check raises.  At every point of the loop the
\* checks handled so far each have exactly one check_metadata entry, in
\* registration order, with status completed or error (an error entry carries
\* the message); a check that raised has no result among the results; the run
\* returns only after every registered check has its entry; and the results
\* and metadata of the other checks equal those of the run of an engine that
\* differs only in not registering the raising check.
C1_RunNeverAborts ==
    /\ Len(check_metadata) = idx
    /\ \A i \in 1..Len(check_metadata) :
          LET e == check_metadata[i]
          IN  /\ e.check_id = registry[i]
              /\ e.status \in {"completed", "error"}
              /\ e.status = "error" =>
                    /\ e.error # None
                    /\ e.error[1] # ""
                    /\ \A j \in 1..Len(all_results) :
                          all_results[j].check_id # e.check_id
              /\ e.status = "completed" =>
                    e.result_count =
                        Num(Cardinality({j \in 1..Len(all_results) :
                                            all_results[j].check_id = e.check_id}))
    /\ \A j \in 1..Len(all_results) :
          \E i \in 1..Len(check_metadata) :
              check_metadata[i].check_id = all_results[j].check_id
    /\ Done =>
          /\ Len(report[1].check_metadata) = Len(registry)
          /\ report[1].check_metadata = check_metadata
          /\ report[1].results = all_results
    /\ (Done /\ prev # None) =>
          \A c \in CheckIds :
              /\ OnlyDropsRaising(prev[1], ThisRun, c) => SameButFor(prev[1], ThisRun, c)
              /\ OnlyDropsRaising(ThisRun, prev[1], c) => SameButFor(ThisRun, prev[1], c)

\* a finished run in which a check raised after another check produced results,
\* compared with the finished run of the engine that has the raising check
\* disabled
C1_Witness ==
    /\ Done
    /\ prev # None
    /\ \E c \in CheckIds :
          /\ OnlyDropsRaising(prev[1], ThisRun, c)
          /\ Len(report[1].results) > 0
          /\ \E d \in CheckIds : d # c /\ RaisedIn(report[1], d)

\* C2: in every report run returns, total_checks = passed + failed, and the
\* five by_severity counts (critical, error, warning, info, pass) sum to
\* total_checks.
C2_SummaryCounts ==
    Done =>
        LET sm == summary(report[1])
            by == sm.by_severity
        IN  /\ sm.total_checks = sm.passed + sm.failed
            /\ by.critical + by.error + by.warning + by.info + by.pass
                  = sm.total_checks
            /\ sm.total_checks = Len(all_results)

\* a report holding passing, critical and error results
C2_Witness ==
    /\ Done
    /\ LET by == summary(report[1]).by_severity
       IN  by.pass > 0 /\ by.critical > 0 /\ by.error > 0

HasSeverity(rep, sev) ==
    \E i \in 1..Len(rep.results) : rep.results[i].severity = sev

\* C3: overall_health is that of the most severe result: CRITICAL if any result
\* is critical; otherwise ERRORS_FOUND if any is an error; otherwise WARNINGS if
\* any is a warning; otherwise (only pass and info results, or none) CLEAN.
C3_OverallHealth ==
    Done =>
        LET rep == report[1]
        IN  overall_health(rep) =
                IF HasSeverity(rep, "critical") THEN "CRITICAL"
                ELSE IF HasSeverity(rep, "error") THEN "ERRORS_FOUND"
                ELSE IF HasSeverity(rep, "warning") THEN "WARNINGS"
                ELSE "CLEAN"

\* a report with both a critical and an error result, whose health is CRITICAL
C3_Witness ==
    /\ Done
    /\ HasSeverity(report[1], "critical")
    /\ HasSeverity(report[1], "error")
    /\ overall_health(report[1]) = "CRITICAL"

\* two runs of the same model whose engines differ only in tolerance_abs,
\* lo's being the smaller
OnlyToleranceGrows(lo, hi) ==
    /\ lo.model = hi.model
    /\ lo.disabled = hi.disabled
    /\ lo.enabled_categories = hi.enabled_categories
    /\ lo.tolerance_abs <= hi.tolerance_abs

SameResult(r, q) ==
    /\ r.check_id = q.check_id
    /\ r.period = q.period
    /\ r.expected_value = q.expected_value
    /\ r.actual_value = q.actual_value

Monotone(lo, hi) ==
    /\ \A i \in 1..Len(lo.report.results) :
          lo.report.results[i].severity = "pass" =>
              \E j \in 1..Len(hi.report.results) :
                  /\ SameResult(lo.report.results[i], hi.report.results[j])
                  /\ hi.report.results[j].severity = "pass"
    /\ \A j \in 1..Len(hi.report.results) :
          hi.report.results[j].severity # "pass" =>
              \E i \in 1..Len(lo.report.results) :
                  /\ lo.report.results[i].check_id = hi.report.results[j].check_id
                  /\ lo.report.results[i].period = hi.report.results[j].period
                  /\ lo.report.results[i].severity # "pass"

\* C4: tolerance monotonicity.  For two engines differing only in tolerance_abs,
\* a <= a', every result that passes under a passes under a', and every failing
\* result under a' has a failing result of the same check and period under a.
C4_ToleranceMonotone ==
    (Done /\ prev # None) =>
        /\ (OnlyToleranceGrows(prev[1], ThisRun) => Monotone(prev[1], ThisRun))
        /\ (OnlyToleranceGrows(ThisRun, prev[1]) => Monotone(ThisRun, prev[1]))

\* the same for 0 <= a <= a', where math.isclose accepts the tolerance
C4_MonotoneFromZero ==
    (Done /\ prev # None) =>
        /\ (OnlyToleranceGrows(prev[1], ThisRun) /\ prev[1].tolerance_abs >= 0
               => Monotone(prev[1], ThisRun))
        /\ (OnlyToleranceGrows(ThisRun, prev[1]) /\ tolerance_abs >= 0
               => Monotone(ThisRun, prev[1]))

(***************************************************************************)
(* Claims on the field mapper and the parsers (SpecMapper)                 *)
(***************************************************************************)
\* the fields of config, by position, that declare the normalized text norm as
\* an alias or as their own name
Declaring(config, norm) ==
    {i \in 1..Len(config.alias_index) :
        \E k \in 1..Len(config.alias_index[i][2]) : config.alias_index[i][2][k] = norm}

IsExact(result, field) ==
    /\ result.internal_field = <<field>>
    /\ result.match_type = "exact"
    /\ result.confidence = <<100, 100>>

\* C5 (as amended): for any loaded configuration and any label L whose
\* normalize(L) equals normalize(F) or a normalized alias of F, resolve_field(L)
\* returns match_type exact, confidence 1.0 and the first field in
\* configuration order that declares that normalized text; this is F unless an
\* earlier field declares it too.
C5_ExactMatchFirstDeclared ==
    call.op = "resolve_field" =>
        \A i \in Declaring(mapping_config, normalize(call.input_name)) :
            (\A j \in Declaring(mapping_config, normalize(call.input_name)) : i <= j)
                => IsExact(ret, mapping_config.alias_index[i][1])

\* two fields declare the label's normalized text and the first is returned
C5_Witness ==
    /\ call.op = "resolve_field"
    /\ Cardinality(Declaring(mapping_config, normalize(call.input_name))) = 2
    /\ IsExact(ret, mapping_config.alias_index[1][1])

\* C5 as claimed: for every field F declaring normalize(L), resolve_field(L)
\* returns F with match_type exact and confidence 1.0.
C5_ExactMatchDominance ==
    call.op = "resolve_field" =>
        \A i \in Declaring(mapping_config, normalize(call.input_name)) :
            IsExact(ret, mapping_config.alias_index[i][1])

\* the configurations load_mapping_config can return for raw
LoadedFrom(raw) == {load_mapping_config(raw, o) : o \in AliasOrders(raw)}

\* LoadedFrom tabulated over the documents
LoadedTable == [raw \in RawConfigs |-> LoadedFrom(raw)]

\* result is unmapped and lists an alias of every field of config
UnmappedWithAll(result, config) ==
    /\ result.match_type = "unmapped"
    /\ result.internal_field = None
    /\ \A i \in 1..Len(config.alias_index) :
          \E c \in 1..Len(result.fuzzy_candidates), k \in 1..Len(config.alias_index[i][2]) :
              result.fuzzy_candidates[c][1] = config.alias_index[i][2][k]

\* result is a substring-stage match to the field config declares first
SubstringToFirst(result, config) ==
    /\ result.match_type = "alias"
    /\ result.confidence = <<85, 100>>
    /\ result.internal_field = <<config.alias_index[1][1]>>
    /\ result.fuzzy_candidates = <<>>

\* no declared alias longer than 3 contains norm or is contained in it
NoSubstring(config, norm) ==
    \A i \in 1..Len(config.alias_index) :
        \A k \in 1..Len(config.alias_index[i][2]) :
            Len(config.alias_index[i][2][k]) > 3 =>
                /\ ~Contains(config.alias_index[i][2][k], norm)
                /\ ~Contains(norm, config.alias_index[i][2][k])

NearMissCall(label, raws) ==
    /\ call.op = "resolve_field"
    /\ call.input_name = label
    /\ \E raw \in raws : mapping_config \in LoadedTable[raw]

C6_AmbiguousReached ==
    /\ call.op = "resolve_field"
    /\ ret.match_type = "unmapped"
    /\ Len(ret.fuzzy_candidates) = 2

ParserOps == {"parse_tabular", "parse_json", "parse_stacked"}

\* the labels of the rows (the keys of the JSON statement) of the call
CallLabels ==
    IF call.op = "parse_json"
    THEN [k \in 1..Len(call.stmt_data[1][2]) |-> call.stmt_data[1][2][k][1]]
    ELSE [k \in 1..Len(call.rows) |-> call.rows[k].label]

\* the number row k carries for the p-th period
CallValue(k, p) ==
    float_or_zero(IF call.op = "parse_json" THEN call.stmt_data[p][2][k][2]
                  ELSE call.rows[k].cells[p])

\* the canonical field a label resolves to
TargetOf(label) == resolve_field(mapping_config, Strip(label)).internal_field

\* rows i < j resolve to the same field, and i is the first row that does
DuplicatePair(i, j) ==
    /\ i < j
    /\ TargetOf(CallLabels[i]) # None
    /\ TargetOf(CallLabels[j]) = TargetOf(CallLabels[i])
    /\ \A h \in 1..(i - 1) : TargetOf(CallLabels[h]) # TargetOf(CallLabels[i])

\* v as the parser of the call leaves it in attribute attr: the tabular and
\* the stacked parser end with the sign normalization
Kept(attr, v) ==
    IF call.op = "parse_json" THEN v
    ELSE normalize_signs([k \in {attr} |-> v], mapping_config.stmt_type, mapping_config)[attr]

\* row j was skipped with a warning and the field holds the values of row i
FirstRowKept(i, j) ==
    LET attr == AttrName(TargetOf(CallLabels[i])[1])
    IN  /\ \E w \in 1..Len(ret.diag.warnings) :
              /\ ret.diag.warnings[w].kind = "duplicate"
              /\ ret.diag.warnings[w].internal_field = TargetOf(CallLabels[i])[1]
        /\ \A p \in 1..Len(ret.statements) :
              attr \in DOMAIN ret.statements[p][2] =>
                  ret.statements[p][2][attr] = Kept(attr, CallValue(i, p))

\* a parser call whose period columns all carry a header
AlignedParserCall ==
    /\ call.op \in ParserOps
    /\ (call.op = "parse_tabular" => \A j \in 1..Len(call.headers) : call.headers[j] # 0)

\* C7: whenever two rows (labels, JSON keys) of one statement resolve to the
\* same canonical field F, the second is skipped with a warning and after
\* parsing F holds the values of the first row in every period.
C7_DuplicateTargetKeepsFirst ==
    AlignedParserCall =>
        \A i, j \in 1..Len(CallLabels) : DuplicatePair(i, j) => FirstRowKept(i, j)

\* the same for the tabular and the stacked parser when the labels of the two
\* rows differ after stripping, where the first row is kept
C7_DistinctLabelsKeepFirst ==
    (AlignedParserCall /\ call.op # "parse_json") =>
        \A i, j \in 1..Len(CallLabels) :
            (DuplicatePair(i, j) /\ Strip(CallLabels[i]) # Strip(CallLabels[j])
                /\ \A h \in 1..Len(CallLabels) :
                      h # i => Strip(CallLabels[h]) # Strip(CallLabels[i]))
                => FirstRowKept(i, j)

SignCall ==
    /\ call.op = "normalize_signs"
    /\ call.statement_type = "cash_flow"

\* C8 (as amended): for any cash-flow record d and configuration,
\* normalize_signs(normalize_signs(d)) = normalize_signs(d) and every field
\* outside the six outflow fields equals its input value; with
\* auto_sign_normalization true each of the six outflow fields is <= 0 after
\* one application and keeps its magnitude, with auto_sign_normalization false
\* the record is returned unchanged.
C8_SignNormalization ==
    SignCall =>
        /\ (call.times = 2 => ret = call.data)
        /\ DOMAIN ret = DOMAIN call.data
        /\ \A k \in DOMAIN call.data \ NEGATIVE_CF_FIELDS : ret[k] = call.data[k]
        /\ (mapping_config.settings.auto_sign_normalization =>
               \A k \in DOMAIN call.data \cap NEGATIVE_CF_FIELDS :
                   ret[k] <= 0 /\ Abs(ret[k]) = Abs(call.data[k]))
        /\ (~mapping_config.settings.auto_sign_normalization => ret = call.data)

\* a positive capex was negated by the first application
C8_Witness ==
    /\ SignCall
    /\ call.times = 1
    /\ mapping_config.settings.auto_sign_normalization
    /\ "capex" \in DOMAIN call.data
    /\ call.data["capex"] > 0
    /\ ret["capex"] = -call.data["capex"]

\* the second application returned the result of the first
C8_IdempotentReached ==
    /\ SignCall
    /\ call.times = 2
    /\ mapping_config.settings.auto_sign_normalization
    /\ "capex" \in DOMAIN call.data
    /\ call.data["capex"] < 0
    /\ ret = call.data

\* C8 as claimed: for any cash-flow record and configuration the second
\* application changes nothing, and after one application each of the six
\* outflow fields is <= 0 and every other field equals its input value.
C8_SignsNonPositive ==
    SignCall =>
        /\ (call.times = 2 => ret = call.data)
        /\ \A k \in DOMAIN call.data \ NEGATIVE_CF_FIELDS : ret[k] = call.data[k]
        /\ \A k \in DOMAIN call.data \cap NEGATIVE_CF_FIELDS : ret[k] <= 0

(***************************************************************************)
(* Claims on the scenarios S2 and S3 (Spec)                                *)
(***************************************************************************)
ResultsOf(rep, c) ==
    LET keep(r) == r.check_id = c
    IN  Filter(keep, rep.results)

StructuralIds == {STRUCTURAL_CHECKS[i] : i \in 1..Len(STRUCTURAL_CHECKS)}

\* check c has one result, for period 1, with this severity and delta
OneResult(rep, c, sev, d) ==
    LET rs == ResultsOf(rep, c)
    IN  /\ Len(rs) = 1
        /\ rs[1].period = 1
        /\ rs[1].severity = sev
        /\ rs[1].delta = d

AllPass(rep, ids) ==
    \A c \in ids :
        LET rs == ResultsOf(rep, c)
        IN  Len(rs) = 1 /\ rs[1].period = 1 /\ rs[1].severity = "pass"

C10_RetainedEarningsRollforward ==
    \A re \in {570, 580, 590} :
        (Done /\ model = S3Model(re) /\ tolerance_abs = 1 /\ "XST-002" \notin disabled
              /\ enabled_categories = None) =>
            \E i \in 1..Len(report[1].results) :
                LET r == report[1].results[i]
                IN  /\ r.check_id = "XST-002"
                    /\ r.period = 2
                    /\ r.severity = IF re = 590 THEN "error" ELSE "pass"

\* the severity, expected and actual value of the results of check c for
\* period p in a report, in the order of the report
ResultsFor(rep, c, p) ==
    LET keep(r) == r.check_id = c /\ r.period = p
        values(r) == <<<<r.severity, r.expected_value, r.actual_value>>>>
    IN  FlatMap(values, Filter(keep, rep.results))

\* this run and the one before it are the runs of one engine on two models
\* that differ in the insertion order of their statement maps
RunsOfTwoOrders == Done /\ prev # None /\ prev[1].model # model

\* C13: for two models with the same periods list and the same statements
\* whose statement maps were populated in different insertion orders, every
\* structural check yields, for each period, the same severity, expected and
\* actual values.
C13_OrderInvariance ==
    RunsOfTwoOrders =>
        \A c \in StructuralIds, p \in 1..3 :
            ResultsFor(report[1], c, p) = ResultsFor(prev[1].report, c, p)

\* two runs on the two insertion orders of a model whose periods differ in a
\* structural result
C13_Witness ==
    /\ RunsOfTwoOrders
    /\ \E c \in StructuralIds :
          /\ ResultsFor(report[1], c, 1) # <<>>
          /\ ResultsFor(report[1], c, 2) # <<>>
          /\ ResultsFor(report[1], c, 1) # ResultsFor(report[1], c, 2)

\* the (period, severity, expected, actual) of the results of check c, in order
ReportedFor(rep, c) ==
    LET keep(r) == r.check_id = c
        values(r) == <<<<r.period, r.severity, r.expected_value, r.actual_value>>>>
    IN  FlatMap(values, Filter(keep, rep.results))

\* the consecutive pairs (p[i-1], p[i]) of the ordered periods, i = 1..n-1, for
\* which both periods have a cash-flow statement
ContinuityPairs(m) ==
    LET ps == get_ordered_periods(m)
        one(i) == IF i > 1 /\ HasKey(m.cash_flows, ps[i - 1]) /\ HasKey(m.cash_flows, ps[i])
                  THEN <<<<ps[i - 1], ps[i]>>>> ELSE <<>>
    IN  FlatMap(one, Indices(ps))

\* what the continuity check is to report for a pair: period p[i], expected the
\* ending cash of p[i-1], actual the beginning cash of p[i], critical when the
\* two are not close
ContinuityResult(m, pair, ta, tp) ==
    LET e == DictGet(m.cash_flows, pair[1]).ending_cash
        a == DictGet(m.cash_flows, pair[2]).beginning_cash
    IN  <<pair[2], IF IsCloseValue(e, a, ta, tp) THEN "pass" ELSE "critical",
          Num(e), Num(a)>>

\* a finished run of an engine that has XST-004 registered and whose
\* tolerances math.isclose accepts
ContinuityRan ==
    /\ Done
    /\ \E i \in 1..Len(registry) : registry[i] = "XST-004"
    /\ ~IsCloseRaises(tolerance_abs, tolerance_pct)

\* C14: with ordered periods p[0..n-1], the run contains exactly one XST-004
\* result for each i in 1..n-1 for which both p[i-1] and p[i] have a cash-flow
\* statement, reported for period p[i] with expected = cf(p[i-1]).ending_cash
\* and actual = cf(p[i]).beginning_cash, critical when they are not close; with
\* a single period it contains no XST-004 result.
C14_CashContinuityPairs ==
    ContinuityRan =>
        LET pairs == ContinuityPairs(model)
        IN  ReportedFor(report[1], "XST-004") =
                [i \in 1..Len(pairs) |->
                    ContinuityResult(model, pairs[i], tolerance_abs, tolerance_pct)]

\* the part of C14 the run does satisfy: without a pair of consecutive periods
\* that both have a cash-flow statement (a single period among them) XST-004
\* completes with no result
C14_NoPairNoResult ==
    (ContinuityRan /\ ContinuityPairs(model) = <<>>) =>
        /\ ReportedFor(report[1], "XST-004") = <<>>
        /\ ~RaisedIn(report[1], "XST-004")

\* what the run does when there is such a pair: _make_result is called with
\* msg=, which is no parameter of it, and XST-004 ends with the TypeError
C14_PairRaisesTypeError ==
    (ContinuityRan /\ ContinuityPairs(model) # <<>>) =>
        /\ ReportedFor(report[1], "XST-004") = <<>>
        /\ \E i \in 1..Len(report[1].check_metadata) :
              /\ report[1].check_metadata[i].check_id = "XST-004"
              /\ report[1].check_metadata[i].status = "error"
              /\ report[1].check_metadata[i].error = Num(TypeErrorMsg)

\* a parser has returned the cash-flow statements it built under a
\* configuration with auto_sign_normalization true
CashFlowParsed(ops) ==
    /\ call.op \in ops
    /\ mapping_config.stmt_type = "cash_flow"
    /\ mapping_config.settings.auto_sign_normalization

\* every outflow field of every returned statement is <= 0
OutflowsNonPositive(statements) ==
    \A i \in 1..Len(statements) :
        \A f \in NEGATIVE_CF_FIELDS : statements[i][2][f] <= 0

\* C15: sign normalization is applied after ingest by every parser: for any
\* input the JSON, tabular or stacked parser accepts with
\* auto_sign_normalization true, every cash-flow statement of the returned
\* model has capex, acquisitions, purchase_of_investments, debt_repayment,
\* share_repurchases and dividends_paid all <= 0.
C15_EveryParserNormalizesSigns ==
    CashFlowParsed({"parse_json", "parse_tabular", "parse_stacked"}) =>
        OutflowsNonPositive(ret.statements)

\* the part of C15 the parsers do satisfy: the tabular and the stacked parser
\* end with the sign normalization
C15_TabularAndStackedNormalize ==
    CashFlowParsed({"parse_tabular", "parse_stacked"}) =>
        OutflowsNonPositive(ret.statements)

\* parse_json leaves every value as the document holds it: a positive capex
\* stays positive
C15_JsonKeepsSigns ==
    CashFlowParsed({"parse_json"}) =>
        \A i \in 1..Len(ret.statements), k \in 1..Len(CallLabels) :
            (CallLabels[k] = T_capex /\ TargetOf(T_capex) = Num(T_capex))
                => ret.statements[i][2].capex = CallValue(k, i)

\* two results agree in canonical field, match type and confidence
SameResolution(a, b) ==
    /\ a.internal_field = b.internal_field
    /\ a.match_type = b.match_type
    /\ a.confidence = b.confidence

\* the configurations the loader can return for the document mapping_config
\* was loaded from: one for each way of enumerating the alias sets
OtherLoads ==
    UNION {LoadedTable[raw] : raw \in {r \in RawConfigs : mapping_config \in LoadedTable[r]}}

\* C16: for a fixed configuration document and label, resolve_field returns
\* the same canonical field, match type and confidence whatever the order in
\* which each field's de-duplicated alias set is enumerated when the reverse
\* index is built, in the substring stage and in the fuzzy stage alike.
C16_ResolverDeterminism ==
    call.op = "resolve_field" =>
        \A c \in OtherLoads : SameResolution(resolve_field(c, call.input_name), ret)

\* a label resolved in the substring stage against a configuration whose
\* document also loads with another alias as the first one containing the
\* label
C16_Witness ==
    /\ call.op = "resolve_field"
    /\ ret.match_type = "alias"
    /\ ret.confidence = <<85, 100>>
    /\ \E c \in OtherLoads :
          LET norm == normalize(call.input_name)
          IN  c.reverse_index[SubstringHit(c.reverse_index, norm)][1]
                # mapping_config.reverse_index[SubstringHit(mapping_config.reverse_index,
                                                            norm)][1]

\* a label resolved in the fuzzy stage against a configuration whose document
\* also loads with another reverse index
C16_FuzzyStageReached ==
    /\ call.op = "resolve_field"
    /\ ret.match_type = "fuzzy"
    /\ \E c \in OtherLoads : c.reverse_index # mapping_config.reverse_index

\* the entries of the reverse index whose alias, longer than 3 characters,
\* contains norm or is contained in it
SubstringEntries(reverse, norm) ==
    {i \in 1..Len(reverse) :
        /\ Len(reverse[i][1]) > 3
        /\ (Contains(norm, reverse[i][1]) \/ Contains(reverse[i][1], norm))}

\* the entries whose alias is similar to norm by at least the threshold
FuzzyEntries(reverse, norm, threshold) ==
    {i \in 1..Len(reverse) : AtLeast(ratio(norm, reverse[i][1]), threshold)}

\* the first stage that hits for the label, in the order exact,
\* aggressive-exact, substring, fuzzy
FirstStage(config, input_name) ==
    LET norm == normalize(input_name)
        reverse == config.reverse_index
    IN  IF HasKey(reverse, norm) THEN "exact"
        ELSE IF HasKey(reverse, normalize_aggressive(input_name)) THEN "aggressive"
        ELSE IF SubstringEntries(reverse, norm) # {} THEN "substring"
        ELSE IF FuzzyEntries(reverse, norm, config.settings.fuzzy_threshold) # {}
        THEN "fuzzy"
        ELSE "none"

IsMatch(result, field, match_type, confidence) ==
    /\ result.internal_field = <<field>>
    /\ result.match_type = match_type
    /\ result.confidence = confidence

IsUnmapped(result) ==
    /\ result.internal_field = None
    /\ result.match_type = "unmapped"
    /\ result.confidence = <<0, 100>>

\* the entry of E that candidates.sort puts first: the greatest ratio, and of
\* equal ratios the one indexed first
Best(reverse, norm, E) ==
    CHOOSE i \in E :
        \A j \in E :
            \/ Greater(ratio(norm, reverse[i][1]), ratio(norm, reverse[j][1]))
            \/ (~Greater(ratio(norm, reverse[j][1]), ratio(norm, reverse[i][1])) /\ i <= j)

\* the ambiguity rule: the two best candidates belong to different fields and
\* their ratios differ by less than 5 points
IsAmbiguous(reverse, norm, E) ==
    LET first == Best(reverse, norm, E)
        second == Best(reverse, norm, E \ {first})
    IN  /\ Cardinality(E) > 1
        /\ reverse[first][2] # reverse[second][2]
        /\ CloserThan5(ratio(norm, reverse[first][1]), ratio(norm, reverse[second][1]))

\* the outcome of the fuzzy stage on the candidates E: unmapped when the
\* ambiguity rule applies, else the field of the best candidate with its ratio
\* as confidence
IsFuzzyOutcome(result, reverse, norm, E) ==
    IF IsAmbiguous(reverse, norm, E) THEN IsUnmapped(result)
    ELSE IsMatch(result, reverse[Best(reverse, norm, E)][2], "fuzzy",
                 ratio(norm, reverse[Best(reverse, norm, E)][1]))

\* result is the outcome of the stage named
IsOutcomeOf(stage, result, config, input_name) ==
    LET norm == normalize(input_name)
        reverse == config.reverse_index
    IN  CASE stage = "exact" -> IsMatch(result, DictGet(reverse, norm), "exact", <<100, 100>>)
          [] stage = "aggressive" ->
                IsMatch(result, DictGet(reverse, normalize_aggressive(input_name)),
                        "alias", <<95, 100>>)
          [] stage = "substring" ->
                \E i \in SubstringEntries(reverse, norm) :
                    /\ \A j \in SubstringEntries(reverse, norm) : i <= j
                    /\ IsMatch(result, reverse[i][2], "alias", <<85, 100>>)
          [] stage = "fuzzy" ->
                IsFuzzyOutcome(result, reverse, norm,
                               FuzzyEntries(reverse, norm, config.settings.fuzzy_threshold))
          [] OTHER -> IsUnmapped(result)

\* internal_field is absent if and only if match_type is unmapped, and then
\* the confidence is 0
AbsentIffUnmapped(result) ==
    /\ (result.internal_field = None) <=> (result.match_type = "unmapped")
    /\ result.match_type = "unmapped" => result.confidence = <<0, 100>>

\* C17: resolve_field returns the outcome of the first stage that hits, in the
\* fixed order exact (confidence 1.00, match_type exact), aggressive-exact
\* (0.95, alias), substring containment over aliases longer than 3 characters
\* (0.85, alias), fuzzy (ratio at or above the threshold, match_type fuzzy),
\* unmapped; in every result internal_field is absent if and only if
\* match_type is unmapped, and then confidence is 0.
C17_FirstStageThatHits ==
    call.op = "resolve_field" =>
        /\ IsOutcomeOf(FirstStage(mapping_config, call.input_name), ret,
                       mapping_config, call.input_name)
        /\ AbsentIffUnmapped(ret)

\* the part of C17 resolve_field does satisfy: the stages in their order under
\* every configuration with a fuzzy_threshold above 0, and the absence of
\* internal_field under every configuration
C17_StagesWhenThresholdPositive ==
    call.op = "resolve_field" =>
        /\ mapping_config.settings.fuzzy_threshold > 0 =>
              IsOutcomeOf(FirstStage(mapping_config, call.input_name), ret,
                          mapping_config, call.input_name)
        /\ AbsentIffUnmapped(ret)

\* with fuzzy_threshold 0 the fuzzy stage is not run: a label no earlier
\* stage resolves is unmapped with no candidates, however similar an alias
C17_ThresholdZeroSkipsFuzzy ==
    (call.op = "resolve_field" /\ mapping_config.settings.fuzzy_threshold = 0
        /\ FirstStage(mapping_config, call.input_name) = "fuzzy")
        => IsUnmapped(ret) /\ ret.fuzzy_candidates = <<>>

\* label i of the list is not blank
NonBlank(labels, i) == labels[i] # <<>> /\ Strip(labels[i]) # <<>>

\* the canonical field label i resolves to (None if it does not resolve)
FieldOf(labels, i) == resolve_field(mapping_config, labels[i]).internal_field

\* label i is skipped as a duplicate target: it resolves to a field an
\* earlier label of the list resolved to
DuplicateTarget(labels, i) ==
    /\ NonBlank(labels, i)
    /\ FieldOf(labels, i) # None
    /\ \E h \in 1..(i - 1) : NonBlank(labels, h) /\ FieldOf(labels, h) = FieldOf(labels, i)

Listed(s, x) == \E k \in 1..Len(s) : s[k] = x

\* the counts of the diagnostics agree with the mapping table, and no two
\* labels of the table map to the same canonical field
TableAccounting(mapping, diag) ==
    /\ diag.mapped_count = diag.exact_matches + diag.alias_matches + diag.fuzzy_matches
    /\ diag.mapped_count = Len(mapping)
    /\ diag.unmapped_count = Len(diag.unmapped_fields)
    /\ \A a, b \in 1..Len(mapping) : a # b => mapping[a][2] # mapping[b][2]

\* C18: after map_fields on any label list, a label skipped as a duplicate
\* target is treated as unmapped: it is not in the mapping table (unless an
\* earlier occurrence of the same text put it there), it is counted in
\* unmapped_count and listed in unmapped_fields; hence mapped_count +
\* unmapped_count equals the number of non-blank input labels, mapped_count =
\* exact_matches + alias_matches + fuzzy_matches = size of the mapping table,
\* and no two labels in the table map to the same canonical field.
C18_BatchAccounting ==
    call.op = "map_fields" =>
        LET labels == call.input_fields
            n == Len(labels)
        IN  /\ \A i \in 1..n :
                  DuplicateTarget(labels, i) =>
                      /\ Listed(ret.diag.unmapped_fields, labels[i])
                      /\ (HasKey(ret.mapping, labels[i])
                             => \E h \in 1..(i - 1) : labels[h] = labels[i])
            /\ ret.diag.mapped_count + ret.diag.unmapped_count
                  = Cardinality({i \in 1..n : NonBlank(labels, i)})
            /\ TableAccounting(ret.mapping, ret.diag)

\* the part of C18 map_fields does satisfy: a duplicate target is left out of
\* the table and warned about, the table and the counts agree, and the labels
\* that are neither blank nor duplicate targets are the mapped and the
\* unmapped ones
C18_AccountingButForDuplicates ==
    call.op = "map_fields" =>
        LET labels == call.input_fields
            n == Len(labels)
        IN  /\ \A i \in 1..n :
                  DuplicateTarget(labels, i) =>
                      /\ \E w \in 1..Len(ret.diag.warnings) :
                            /\ ret.diag.warnings[w].kind = "duplicate"
                            /\ ret.diag.warnings[w].input_name = labels[i]
                      /\ (HasKey(ret.mapping, labels[i])
                             => \E h \in 1..(i - 1) : labels[h] = labels[i])
            /\ ret.diag.mapped_count + ret.diag.unmapped_count
                  = Cardinality({i \in 1..n : NonBlank(labels, i)
                                                 /\ ~DuplicateTarget(labels, i)})
            /\ TableAccounting(ret.mapping, ret.diag)

\* a duplicate target is counted nowhere: neither mapped nor unmapped
C18_DuplicateCountedNowhere ==
    call.op = "map_fields" =>
        \A i \in 1..Len(call.input_fields) :
            (DuplicateTarget(call.input_fields, i)
                /\ \A h \in 1..Len(call.input_fields) :
                      h # i => call.input_fields[h] # call.input_fields[i])
                => /\ ~Listed(ret.diag.unmapped_fields, call.input_fields[i])
                   /\ ~HasKey(ret.mapping, call.input_fields[i])

\* the canonical field of row k of the grid handed to _parse_tabular_data,
\* <<>> if its label is blank or unmapped
FieldOfRow(k) ==
    IF RowIsBlank(call.rows[k]) THEN <<>>
    ELSE DictGetOr(map_fields(mapping_config, InputFieldNames(call.rows)).mapping,
                   Strip(call.rows[k].label), <<>>)

\* row k is the last row of the grid with its label
LastOfLabel(k) ==
    \A n \in (k + 1)..Len(call.rows) :
        Strip(call.rows[n].label) # Strip(call.rows[k].label)

\* the rows whose value reaches the statements: mapped to an attribute of the
\* statement, and not overwritten by a later row of the same label
StoredRows ==
    {k \in 1..Len(call.rows) :
        /\ FieldOfRow(k) # <<>>
        /\ LastOfLabel(k)
        /\ \A i \in 1..Len(ret.statements) :
              AttrName(FieldOfRow(k)) \in DOMAIN ret.statements[i][2]}

\* the value stored for period p in the field of row k, whatever its sign
StoredAbs(p, k) == Abs(DictGet(ret.statements, p)[AttrName(FieldOfRow(k))])

\* C23: for every period label found at header column c (c >= 1) and every
\* row whose label is mapped to canonical field F, the value stored in F for
\* that period is the number of that row's cell in the same column c; empty
\* header columns are ignored and do not shift the values of the periods to
\* their right.
C23_TabularColumnAlignment ==
    call.op = "parse_tabular" =>
        \A c \in 1..Len(call.headers) :
            call.headers[c] # 0 =>
                \A k \in StoredRows :
                    StoredAbs(call.headers[c], k) = call.rows[k].cells[c][1]

\* what _parse_tabular_data stores: the cell at the rank of the period among
\* the non-empty header cells
C23_ValuesFollowPeriodRank ==
    call.op = "parse_tabular" =>
        \A c \in 1..Len(call.headers) :
            call.headers[c] # 0 =>
                \A k \in StoredRows :
                    StoredAbs(call.headers[c], k) =
                        call.rows[k].cells[Cardinality({b \in 1..c : call.headers[b] # 0})][1]

\* a grid with an empty header cell left of a period, and a row that is stored
C23_EmptyHeaderColumnReached ==
    /\ call.op = "parse_tabular"
    /\ StoredRows # {}
    /\ \E c \in 1..Len(call.headers), b \in 1..Len(call.headers) :
          b < c /\ call.headers[b] = 0 /\ call.headers[c] # 0

\* the elements of a list
Elems(xs) == {xs[i] : i \in 1..Len(xs)}

\* the aliases a configuration lists for a field, none if it has not the field
AliasesOf(config, f) ==
    IF HasKey(config.alias_index, f) THEN Elems(DictGet(config.alias_index, f)) ELSE {}

Merged == call.op = "merge_mapping_configs"

\* every alias of the override's reverse index maps in the merged reverse
\* index to the field it has in the override's reverse index
OverrideAliasesWin ==
    \A a \in DictKeys(call.override.reverse_index) :
        /\ HasKey(ret.reverse_index, a)
        /\ DictGet(ret.reverse_index, a) = DictGet(call.override.reverse_index, a)

\* aliases present only in base keep base's field
BaseOnlyAliasesKept ==
    \A a \in DictKeys(mapping_config.reverse_index)
                \ DictKeys(call.override.reverse_index) :
        /\ HasKey(ret.reverse_index, a)
        /\ DictGet(ret.reverse_index, a) = DictGet(mapping_config.reverse_index, a)

\* each field's merged alias list is the union of the two lists
AliasListsUnited ==
    /\ DictKeys(ret.alias_index)
          = DictKeys(mapping_config.alias_index) \cup DictKeys(call.override.alias_index)
    /\ \A f \in DictKeys(ret.alias_index) :
          AliasesOf(ret, f) = AliasesOf(mapping_config, f) \cup AliasesOf(call.override, f)

\* every settings key takes the override's value when the override defines it
SettingsOverridden ==
    /\ DOMAIN ret.settings
          = DOMAIN mapping_config.settings \cup DOMAIN call.override.settings
    /\ \A k \in DOMAIN ret.settings :
          ret.settings[k] = IF k \in DOMAIN call.override.settings
                            THEN call.override.settings[k]
                            ELSE mapping_config.settings[k]

\* C24: in merge_mapping_configs(base, override) every alias of the
\* override's reverse index maps in the merged reverse index to the same
\* canonical field as in the override's reverse index; aliases present only
\* in base keep base's field; each canonical field's merged alias list is the
\* union of base's and override's lists; and every settings key takes the
\* override's value when the override defines it.
C24_ConfigurationMerge ==
    Merged => /\ OverrideAliasesWin
              /\ BaseOnlyAliasesKept
              /\ AliasListsUnited
              /\ SettingsOverridden

\* the three parts that merge_mapping_configs does keep
C24_BaseAliasListsSettings ==
    Merged => BaseOnlyAliasesKept /\ AliasListsUnited /\ SettingsOverridden

\* an alias listed by the override goes to the last field of the override
\* that lists it
C24_LastListingFieldWins ==
    Merged =>
        \A i \in 1..Len(call.override.alias_index) :
            \A a \in Elems(call.override.alias_index[i][2]) :
                (\A n \in (i + 1)..Len(call.override.alias_index) :
                    a \notin Elems(call.override.alias_index[n][2]))
                    => DictGet(ret.reverse_index, a) = call.override.alias_index[i][1]

\* an override that lists one alias under two fields is merged
C24_CollidingOverrideMerged ==
    /\ Merged
    /\ \E i, n \in 1..Len(call.override.alias_index) :
          /\ i < n
          /\ Elems(call.override.alias_index[i][2])
                \cap Elems(call.override.alias_index[n][2]) # {}

\* the two sides XST-005 compares for period p
IS_DA(m, p) ==
    DictGet(m.income_statements, p).depreciation + DictGet(m.income_statements, p).amortization

CF_DA(m, p) == DictGet(m.cash_flows, p).depreciation_amortization

\* the periods of the XST-005 results of a report
DAPeriods(rep) == {ResultsOf(rep, "XST-005")[i].period : i \in 1..Len(ResultsOf(rep, "XST-005"))}

\* C25: the D&A linkage check emits a result for a period only if both
\* is.depreciation + is.amortization and cf.depreciation_amortization are
\* nonzero; when exactly one of the two sides is zero no XST-005 result (and
\* hence no WARNING) is produced for that period.
C25_DALinkageGuard ==
    Done => \A p \in DAPeriods(report[1]) : IS_DA(model, p) # 0 /\ CF_DA(model, p) # 0

\* the guard of the code: a period with both statements has a result unless
\* both sides are zero
C25_SkippedOnlyIfBothZero ==
    (Done /\ (\E i \in 1..Len(registry) : registry[i] = "XST-005")
          /\ ~RaisedIn(report[1], "XST-005")) =>
        DAPeriods(report[1]) =
            {p \in DictKeys(model.income_statements) \cap DictKeys(model.cash_flows) :
                ~(IS_DA(model, p) = 0 /\ CF_DA(model, p) = 0)}

\* a run that reports an XST-005 warning for a period with one side zero
C25_OneSidedWarning ==
    /\ Done
    /\ \E i \in 1..Len(report[1].results) :
          LET r == report[1].results[i]
          IN  /\ r.check_id = "XST-005"
              /\ r.severity = "warning"
              /\ IS_DA(model, r.period) # 0
              /\ CF_DA(model, r.period) = 0

\* period p has a cash-flow statement with cash_from_operations + capex < 0
NegativeFCF(m, p) ==
    /\ HasKey(m.cash_flows, p)
    /\ DictGet(m.cash_flows, p).cash_from_operations + DictGet(m.cash_flows, p).capex < 0

\* the periods of the streak warnings of RSN-007 in a report
StreakPeriods(rep) ==
    {ResultsOf(rep, "RSN-007")[i].period :
        i \in {n \in 1..Len(ResultsOf(rep, "RSN-007")) :
                  ResultsOf(rep, "RSN-007")[n].severity = "warning"}}

\* the last three of the first i periods of ps are all of negative FCF
ThreeNegative(m, ps, i) ==
    i >= 3 /\ \A n \in (i - 2)..i : NegativeFCF(m, ps[n])

\* a finished run in which RSN-007 completed
FCFRan ==
    /\ Done
    /\ \E i \in 1..Len(registry) : registry[i] = "RSN-007"
    /\ ~RaisedIn(report[1], "RSN-007")

\* C26: RSN-007 emits a streak WARNING for period p if and only if p and the
\* two periods immediately preceding it in the ordered period list each have
\* a cash-flow statement with cash_from_operations + capex < 0; a period with
\* cfo + capex >= 0 resets the count to 0, and no streak warning is emitted
\* while fewer than 3 consecutive periods are negative.
C26_NegativeFCFStreak ==
    FCFRan =>
        LET ps == get_ordered_periods(model)
        IN  \A i \in 1..Len(ps) :
                ps[i] \in StreakPeriods(report[1]) <=> ThreeNegative(model, ps, i)

\* the ordered periods that have a cash-flow statement
WithCashFlow(m) ==
    LET has(p) == HasKey(m.cash_flows, p)
    IN  Filter(has, get_ordered_periods(m))

\* the streak FCFCheck.run counts: over the periods that have a cash-flow
\* statement, a period without one neither counts nor resets
C26_StreakSkipsMissingStatements ==
    FCFRan =>
        LET ps == WithCashFlow(model)
        IN  /\ StreakPeriods(report[1]) \subseteq {ps[i] : i \in 1..Len(ps)}
            /\ \A i \in 1..Len(ps) :
                  ps[i] \in StreakPeriods(report[1]) <=> ThreeNegative(model, ps, i)

\* a streak warning for a period whose predecessor has no cash-flow statement
C26_StreakAcrossGap ==
    /\ FCFRan
    /\ \E i \in 2..Len(get_ordered_periods(model)) :
          /\ get_ordered_periods(model)[i] \in StreakPeriods(report[1])
          /\ \E n \in (i - 2)..(i - 1) :
                n >= 1 /\ ~HasKey(model.cash_flows, get_ordered_periods(model)[n])

\* a finished run of an engine whose tolerances math.isclose accepts
WellFormedRun == Done /\ ~IsCloseRaises(tolerance_abs, tolerance_pct)

\* the checks whose run calls _make_result with the keyword msg
MsgChecks ==
    {"XST-002", "XST-004", "XST-006", "XST-007", "XST-008", "XST-009",
     "RSN-001", "RSN-002", "RSN-005"}

\* C27: every catalog check completes on every well-formed model: each
\* registered check's run returns a result list without raising, so every
\* check_metadata entry has status 'completed'.
C27_EveryCheckCompletes ==
    WellFormedRun =>
        \A i \in 1..Len(report[1].check_metadata) :
            report[1].check_metadata[i].status = "completed"

\* the checks that never pass msg= do complete
C27_ChecksWithoutMsgComplete ==
    WellFormedRun =>
        \A i \in 1..Len(report[1].check_metadata) :
            report[1].check_metadata[i].check_id \notin MsgChecks
                => report[1].check_metadata[i].status = "completed"

\* a check that ends in error does so with the TypeError of _make_result and
\* leaves no result in the report
C27_MsgChecksEndInTypeError ==
    WellFormedRun =>
        \A i \in 1..Len(report[1].check_metadata) :
            LET e == report[1].check_metadata[i]
            IN  e.status = "error" =>
                    /\ e.check_id \in MsgChecks
                    /\ e.error = <<TypeErrorMsg>>
                    /\ ResultsOf(report[1], e.check_id) = <<>>

\* a run on a model with two periods in which XST-002 ended in error
C27_RollforwardRaised ==
    /\ WellFormedRun
    /\ RaisedIn(report[1], "XST-002")

\* a call of resolve_field that returned a fuzzy match
FuzzyMatched ==
    /\ call.op = "resolve_field"
    /\ ret.match_type = "fuzzy"

\* the entries of the reverse index that are candidates of the call for a
\* field other than the one returned
OtherFieldCandidates ==
    {i \in FuzzyEntries(mapping_config.reverse_index, normalize(call.input_name),
                        mapping_config.settings.fuzzy_threshold) :
        mapping_config.reverse_index[i][2] # ret.internal_field[1]}

RatioOf(i) == ratio(normalize(call.input_name), mapping_config.reverse_index[i][1])

\* C28: whenever resolve_field returns a fuzzy match to canonical field F
\* with best ratio r, no alias of a different canonical field is a candidate
\* (ratio >= threshold) with ratio greater than r - 5: the ambiguity rule
\* protects against every near-tie with another field, not only when the
\* other field's alias is the second-ranked candidate.
C28_NoNearTieWithOtherField ==
    FuzzyMatched =>
        \A i \in OtherFieldCandidates : ~CloserThan5(ret.confidence, RatioOf(i))

\* what the ambiguity rule does exclude: a near-tie with another field at the
\* second rank of the sorted candidates
C28_SecondRankedOnly ==
    FuzzyMatched =>
        LET reverse == mapping_config.reverse_index
            norm == normalize(call.input_name)
            E == FuzzyEntries(reverse, norm, mapping_config.settings.fuzzy_threshold)
            second == Best(reverse, norm, E \ {Best(reverse, norm, E)})
        IN  Cardinality(E) > 1 =>
                \/ reverse[second][2] = ret.internal_field[1]
                \/ ~CloserThan5(ret.confidence, RatioOf(second))

\* a fuzzy match with a near-tie of another field further down the candidates
C28_NearTieBelowSecondRank ==
    /\ FuzzyMatched
    /\ \E i \in OtherFieldCandidates : CloserThan5(ret.confidence, RatioOf(i))

\* the labels of a call of map_fields whose normalized form is empty and that
\* are not skipped as blank
EmptyNormalized ==
    {call.input_fields[i] :
        i \in {n \in 1..Len(call.input_fields) :
                  /\ Strip(call.input_fields[n]) # <<>>
                  /\ normalize(call.input_fields[n]) = <<>>}}

\* C29: a label whose normalized form is the empty string (a label of
\* parenthesized text or punctuation only, such as '(in millions)') resolves
\* to unmapped with confidence 0 and is never assigned a canonical field, both
\* in resolve_field and in map_fields.
C29_EmptyNormalizedUnmapped ==
    /\ (call.op = "resolve_field" /\ normalize(call.input_name) = <<>>)
          => IsUnmapped(ret)
    /\ call.op = "map_fields"
          => \A label \in EmptyNormalized : ~HasKey(ret.mapping, label)

\* what resolve_field returns for such a label: the field of the first alias
\* longer than 3 characters, as a substring match, and unmapped only if the
\* configuration has no such alias
C29_EmptyMatchesFirstLongAlias ==
    (call.op = "resolve_field" /\ normalize(call.input_name) = <<>>) =>
        LET reverse == mapping_config.reverse_index
            long == {i \in 1..Len(reverse) : Len(reverse[i][1]) > 3}
        IN  IF long = {} THEN IsUnmapped(ret)
            ELSE IsMatch(ret, reverse[Least(long)][2], "alias", <<85, 100>>)

\* map_fields assigns a field to a label that is a note in parentheses
C29_NoteMapped ==
    /\ call.op = "map_fields"
    /\ \E label \in EmptyNormalized : HasKey(ret.mapping, label)

\* some check of the report ended in error
SomeCheckRaised(rep) ==
    \E i \in 1..Len(rep.check_metadata) : rep.check_metadata[i].status = "error"

\* C30: a report's overall_health is CLEAN (and the exit code of the command
\* line is 0) only if every registered check ran to completion: if any
\* check_metadata entry has status 'error', overall_health is not CLEAN.
C30_CleanOnlyIfAllCompleted ==
    (Done /\ SomeCheckRaised(report[1])) => overall_health(report[1]) # "CLEAN"

\* the exit code is 0 exactly when no result of the report is critical or an
\* error, whatever check_metadata holds
C30_ExitCodeFromResultsOnly ==
    Done =>
        (exit_code(report[1]) = 0
            <=> ~(HasSeverity(report[1], "critical") \/ HasSeverity(report[1], "error")))

\* a run with valid tolerances in which a check ended in error, and whose
\* report is CLEAN with exit code 0
C30_CleanWithErroredCheck ==
    /\ WellFormedRun
    /\ SomeCheckRaised(report[1])
    /\ overall_health(report[1]) = "CLEAN"
    /\ exit_code(report[1]) = 0

(***************************************************************************)
(* Claims on the stacked-sheet parser (SpecSheet)                          *)
(***************************************************************************)
\* parse_stacked_sheet has returned a model for the sheet call.all_rows
SheetParsed == call.op = "parse_stacked_sheet" /\ ~ret.raised

\* row i of the sheet (counted from 0) is classified as a stop row, as a
\* section header, in columns 0..3
IsStopRow(all_rows, i) == RowClass(all_rows[i + 1]) = "stop"

IsHeaderRow(all_rows, i) == RowClass(all_rows[i + 1]) \notin {"", "stop"}

\* row r lies at or after a stop row, with no section header from that stop
\* row to r
AfterStop(all_rows, r) ==
    \E s \in 0..r : IsStopRow(all_rows, s) /\ \A h \in s..r : ~IsHeaderRow(all_rows, h)

\* Row r of the sheet is ingested: a number of one of its cells is the revenue
\* or the cogs of a statement of the model returned.  The numbers of the rows
\* of a sheet differ from row to row and from 0.
Ingested(all_rows, r) ==
    \E k \in 1..Len(ret.income_statements), c \in 1..Len(all_rows[r + 1]) :
        /\ IsNumber(all_rows[r + 1][c])
        /\ all_rows[r + 1][c][1] \in {ret.income_statements[k][2].revenue,
                                       ret.income_statements[k][2].cogs}

\* C11: for any stacked sheet, no row at or after a stop row and before the
\* next section header is ingested into a statement.
C11_StopSectionExclusion ==
    SheetParsed =>
        \A r \in 0..(Len(call.all_rows) - 1) :
            AfterStop(call.all_rows, r) => ~Ingested(call.all_rows, r)

\* C11 holds of the sheets none of whose sections is closed with end_idx 0,
\* the value `sec['end_idx'] or len(all_rows) - 1` takes for unset.
C11_ExceptSectionClosedAtRowZero ==
    (SheetParsed /\ \A k \in 1..Len(ret.sections) : ret.sections[k].end_idx # Num(0)) =>
        \A r \in 0..(Len(call.all_rows) - 1) :
            AfterStop(call.all_rows, r) => ~Ingested(call.all_rows, r)

\* C11 on S5: rows 4 and 5 are the rows ingested, the Revenue row after
\* 'DCF Valuation' is not.
C11_S5RowsFourAndFive ==
    (SheetParsed /\ call.all_rows = S5_Sheet) =>
        {r \in 0..7 : Ingested(S5_Sheet, r)} = {4, 5}

\* the sheet with an empty cell for every cell that holds 'n/a'
Emptied(all_rows) ==
    [i \in 1..Len(all_rows) |->
        [c \in 1..Len(all_rows[i]) |->
            IF all_rows[i][c] = Str(T_n_a) THEN None ELSE all_rows[i][c]]]

\* C12: a value cell holding 'n/a', which the number parser does not parse,
\* never aborts the parse of a stacked sheet: a model is returned, the one
\* returned for the sheet with the cell empty (the field is 0.0 for that
\* period, every other cell, row and section is ingested as before).
C12_UnparseableCellNeverAborts ==
    call.op = "parse_stacked_sheet" =>
        ret = parse_stacked_sheet(Emptied(call.all_rows), mapping_config)

\* C12 restricted to the calls that return: what is returned is the model of
\* the sheet with the 'n/a' cells empty.
C12_ReturnedModelIgnoresCell ==
    SheetParsed => ret = parse_stacked_sheet(Emptied(call.all_rows), mapping_config)

\* the texts of the sheets that match a stop pattern, and those that match a
\* section pattern, once stripped and lowercased (texts under 3 characters
\* match nothing)
StopTexts ==
    {text \in SheetTexts :
        /\ Len(Strip(text)) >= 3
        /\ \E k \in 1..Len(STOP_PATTERNS) : re_search(STOP_PATTERNS[k], LowerStr(Strip(text)))}

SectionTexts ==
    {text \in SheetTexts :
        /\ Len(Strip(text)) >= 3
        /\ \E k \in 1..Len(SECTION_PATTERNS) :
              \E n \in 1..Len(SECTION_PATTERNS[k][2]) :
                  re_search(SECTION_PATTERNS[k][2][n], LowerStr(Strip(text)))}

\* the first of columns 0..3 of the row that holds a text matching a stop or a
\* section pattern (0 if none), counted from 1
ClassifiedCell(row) ==
    LET hits == {c \in 1..Len(row) :
                    c <= 4 /\ IsStr(row[c]) /\ row[c][2] \in StopTexts \cup SectionTexts}
    IN  IF hits = {} THEN 0 ELSE CHOOSE c \in hits : \A d \in hits : c <= d

\* row i (counted from 0) is a stop row: stop takes precedence over the
\* section patterns; it is a section header
StopAt(all_rows, i) ==
    LET c == ClassifiedCell(all_rows[i + 1])
    IN  c # 0 /\ all_rows[i + 1][c][2] \in StopTexts

HeaderAt(all_rows, i) ==
    LET c == ClassifiedCell(all_rows[i + 1])
    IN  c # 0 /\ all_rows[i + 1][c][2] \notin StopTexts

\* the rows that close the section open above them
Boundaries(all_rows) ==
    {i \in 0..(Len(all_rows) - 1) : StopAt(all_rows, i) \/ HeaderAt(all_rows, i)}

\* the row at which the section opened at row h is closed
ClosedAt(all_rows, h) ==
    LET later == {i \in Boundaries(all_rows) : i > h}
    IN  IF later = {} THEN Len(all_rows) - 1
        ELSE (CHOOSE i \in later : \A j \in later : i <= j) - 1

\* C19: scanning the rows top to bottom, at most one section is open at a
\* time; a section header at row i closes the open section at i-1 and opens a
\* new one with header_idx = i; a stop row closes the open section at i-1 and
\* opens none; the last open section closes at the last row.  The sections
\* are in ascending row order, pairwise disjoint, satisfy header_idx <=
\* end_idx, and contain no row after their header that classifies as a stop or
\* a section header in columns 0..3, stop taking precedence over the section
\* patterns.
C19_PhaseOneSegmentation ==
    call.op = "parse_stacked_sheet" =>
        LET all_rows == call.all_rows
            sections == ret.sections
        IN  /\ {sections[k].header_idx : k \in 1..Len(sections)}
                  = {i \in 0..(Len(all_rows) - 1) : HeaderAt(all_rows, i)}
            /\ \A k \in 1..Len(sections) :
                  /\ sections[k].end_idx = Num(ClosedAt(all_rows, sections[k].header_idx))
                  /\ sections[k].header_idx <= sections[k].end_idx[1]
                  /\ \A i \in (sections[k].header_idx + 1)..sections[k].end_idx[1] :
                        i \notin Boundaries(all_rows)
                  /\ k < Len(sections) =>
                        sections[k].end_idx[1] < sections[k + 1].header_idx

\* a sheet with two sections, one of them closed by a stop row whose text
\* matches a section pattern too
C19_Witness ==
    /\ call.op = "parse_stacked_sheet"
    /\ Len(ret.sections) >= 2
    /\ \E k \in 1..Len(ret.sections), i \in 1..(Len(call.all_rows) - 1) :
          /\ StopAt(call.all_rows, i)
          /\ call.all_rows[i + 1][1][2] \in SectionTexts
          /\ ret.sections[k].end_idx = Num(i - 1)

\* the rows of the inclusive window first..last that hold at least 2 cells
\* matching the strict period pattern
PeriodRowsIn(all_rows, first, last) ==
    {r \in first..Min(last, Len(all_rows) - 1) : period_count(all_rows[r + 1]) >= 2}

\* the period row of a section searched in the window first..last: the first
\* such row, None (the section is skipped) if there is none
FirstPeriodRow(all_rows, first, last) ==
    IF PeriodRowsIn(all_rows, first, last) = {} THEN None
    ELSE Num(Least(PeriodRowsIn(all_rows, first, last)))

\* C20: for each section the period row is the first row r with header_idx <=
\* r <= min(header_idx + 5, end_idx) that has at least 2 cells matching the
\* strict period pattern; the section is skipped only if no row of that
\* inclusive window qualifies, so that a period header 5 rows below the
\* section header is found.
C20_PeriodRowWindow ==
    call.op = "parse_stacked_sheet" =>
        \A k \in 1..Len(ret.period_rows) :
            LET sec == ret.sections[k]
            IN  ret.period_rows[k] =
                    FirstPeriodRow(call.all_rows, sec.header_idx,
                                   Min(sec.header_idx + 5, sec.end_idx[1]))

\* the window parse_stacked_sheet does search: the 5 rows header_idx ..
\* header_idx + 4, up to the end of the section, where a section closed at row
\* 0 is taken to end at the last row of the sheet
C20_WindowOfFiveRows ==
    call.op = "parse_stacked_sheet" =>
        \A k \in 1..Len(ret.period_rows) :
            LET sec == ret.sections[k]
                end == IF sec.end_idx = Num(0) THEN Len(call.all_rows) - 1
                       ELSE sec.end_idx[1]
            IN  ret.period_rows[k] =
                    FirstPeriodRow(call.all_rows, sec.header_idx,
                                   Min(sec.header_idx + 4, end))

\* a section whose only period header is 5 rows below its header is skipped
C20_FifthRowBelowIsMissed ==
    call.op = "parse_stacked_sheet" =>
        \A k \in 1..Len(ret.period_rows) :
            LET sec == ret.sections[k]
            IN  (/\ sec.header_idx + 5 <= sec.end_idx[1]
                 /\ PeriodRowsIn(call.all_rows, sec.header_idx, sec.header_idx + 5)
                       = {sec.header_idx + 5})
                    => ret.period_rows[k] = None

\* such a section is parsed
C20_FifthRowBelowReached ==
    /\ call.op = "parse_stacked_sheet"
    /\ \E k \in 1..Len(ret.period_rows) :
          /\ ret.sections[k].header_idx + 5 <= ret.sections[k].end_idx[1]
          /\ PeriodRowsIn(call.all_rows, ret.sections[k].header_idx,
                          ret.sections[k].header_idx + 5)
                = {ret.sections[k].header_idx + 5}

\* the data rows of section k of a parsed sheet: the rows below its period row
\* up to the end of the section
DataRowsOf(k) ==
    (ret.period_rows[k][1] + 1)..SectionEnd(call.all_rows, ret.sections[k])

\* the columns of the period labels of section k
PeriodColsOf(k) ==
    LET period_col_map ==
            extract_period_columns(call.all_rows[ret.period_rows[k][1] + 1], 0, <<>>)
    IN  {period_col_map[n][2] : n \in 1..Len(period_col_map)}

\* the data rows of section k whose cell in column j is a string longer than
\* 2 characters that is not a number
ScoringRows(k, j) ==
    {i \in DataRowsOf(k) : /\ j < Len(call.all_rows[i + 1])
                           /\ IsLabelText(call.all_rows[i + 1][j + 1], 2)}

\* the columns of section k that score, and the highest-scoring ones
ScoredCols(k) ==
    {j \in UNION {0..(Len(call.all_rows[i + 1]) - 1) : i \in DataRowsOf(k)} :
        j \notin PeriodColsOf(k) /\ ScoringRows(k, j) # {}}

BestCols(k) ==
    {j \in ScoredCols(k) :
        \A c \in ScoredCols(k) : Cardinality(ScoringRows(k, c)) <= Cardinality(ScoringRows(k, j))}

\* the sections of the parsed sheet whose label column was detected
Detected == {k \in 1..Len(ret.label_cols) : ret.label_cols[k] # None}

\* C21: the label column of a section is its highest-scoring non-period
\* column, where a column scores one for each data row whose cell is a
\* non-numeric string longer than 2 characters; when several columns tie for
\* the highest score the lowest column index is chosen, whatever row each
\* column's first scorable cell is in; with no scorable cell it is column 0.
C21_LabelColumnLowestOnTie ==
    call.op = "parse_stacked_sheet" =>
        \A k \in Detected :
            ret.label_cols[k] =
                Num(IF ScoredCols(k) = {} THEN 0 ELSE Least(BestCols(k)))

\* what _detect_label_column returns: a highest-scoring column, and among
\* those the one whose first scorable cell comes first in row-major order
C21_LabelColumnFirstScored ==
    call.op = "parse_stacked_sheet" =>
        \A k \in Detected :
            IF ScoredCols(k) = {} THEN ret.label_cols[k] = Num(0)
            ELSE /\ ret.label_cols[k][1] \in BestCols(k)
                 /\ \A c \in BestCols(k) :
                       LET j == ret.label_cols[k][1]
                       IN  \/ Least(ScoringRows(k, j)) < Least(ScoringRows(k, c))
                           \/ /\ Least(ScoringRows(k, j)) = Least(ScoringRows(k, c))
                              /\ j <= c

\* a tie between column 0 and a higher column whose first scorable cell is in
\* an earlier row goes to the higher column
C21_TieGoesToEarlierRow ==
    call.op = "parse_stacked_sheet" =>
        \A k \in Detected :
            \A c \in BestCols(k) :
                (/\ 0 \in BestCols(k)
                 /\ Least(ScoringRows(k, c)) < Least(ScoringRows(k, 0)))
                    => ret.label_cols[k] # Num(0)

\* such a tie is parsed
C21_TieReached ==
    /\ call.op = "parse_stacked_sheet"
    /\ \E k \in Detected :
          \E c \in BestCols(k) :
              /\ 0 \in BestCols(k)
              /\ Least(ScoringRows(k, c)) < Least(ScoringRows(k, 0))

\* the string cells of the first five rows that hold an em dash, as <<row,
\* column>> pairs
DashCells ==
    {rc \in UNION {{<<r, c>> : c \in 0..(Len(call.all_rows[r + 1]) - 1)} :
                       r \in 0..Min(4, Len(call.all_rows) - 1)} :
        /\ IsStr(call.all_rows[rc[1] + 1][rc[2] + 1])
        /\ Contains(call.all_rows[rc[1] + 1][rc[2] + 1][2], <<"<em-dash>">>)}

\* rc comes before every other such cell in row-major order
RowMajorFirst(rc) ==
    \A o \in DashCells : rc[1] < o[1] \/ (rc[1] = o[1] /\ rc[2] <= o[2])

\* rc is the first such cell of the last row that has one
FirstOfLastRow(rc) ==
    \A o \in DashCells : o[1] < rc[1] \/ (rc[1] = o[1] /\ rc[2] <= o[2])

\* cell.split('<em-dash>')[0].strip() of the cell at rc
DashPrefix(rc) ==
    LET cell == call.all_rows[rc[1] + 1][rc[2] + 1][2]
    IN  Strip(SubSeq(cell, 1, Least({k \in 1..Len(cell) : cell[k] = "<em-dash>"}) - 1))

\* C22: company_name is the trimmed text before the em dash of the first
\* string cell, in row-major order over the first five rows, that holds an em
\* dash; when several of the first five rows hold one the earliest row
\* determines the name; with no such cell the name stays 'Unknown'.
C22_CompanyNameFirstCell ==
    (call.op = "parse_stacked_sheet" /\ ~ret.raised) =>
        IF DashCells = {} THEN ret.company_name = T_Unknown
        ELSE \E rc \in DashCells : RowMajorFirst(rc) /\ ret.company_name = DashPrefix(rc)

\* the name parse_stacked_sheet returns: the one of the last of the first five
\* rows that holds an em dash, taken from the first such cell of that row
C22_CompanyNameLastRow ==
    (call.op = "parse_stacked_sheet" /\ ~ret.raised) =>
        IF DashCells = {} THEN ret.company_name = T_Unknown
        ELSE \E rc \in DashCells : FirstOfLastRow(rc) /\ ret.company_name = DashPrefix(rc)

\* a sheet whose first five rows hold two titles with different names
C22_TwoTitleRows ==
    /\ call.op = "parse_stacked_sheet"
    /\ ~ret.raised
    /\ \E a, b \in DashCells : a[1] < b[1] /\ DashPrefix(a) # DashPrefix(b)

====
